---- MODULE Spec2Model ----
(***************************************************************************)
(* Seat reservation subsystem of the community platform:                   *)
(*   backend/src/routes/seats.ts      reserve / release / initialize /     *)
(*                                    cleanup-expired                      *)
(*   backend/src/utils/seatCleanup.ts cleanupExpiredReservations           *)
(*   backend/src/utils/initializeSeats.ts  the seat pool                   *)
(*                                                                         *)
(* Every await of a handler is a position of its request: the store call   *)
(* that was issued is applied in a later step, and the synchronous code    *)
(* that follows the await belongs to that step.  Between two steps of a    *)
(* request the steps of other requests, of the sweeps and of the clock     *)
(* take place.  A finished operation leaves its HTTP response in its slot  *)
(* until the slot serves the next operation.                               *)
(***************************************************************************)
EXTENDS Integers, FiniteSets, Sequences, TLC

\* ---------------------------------------------------------------- bounds
\* The clock counts hours and stops at MaxTime.
MaxTime == 3
\* Number of operations (requests, sweeps) tracked at the same time.
MaxReq == 2
\* Number of socket connections.
MaxConn == 1
\* Latest hour, counted from a local midnight, at which SpecHours starts.
MaxClock == 25
\* Number of messages of the team chat.
MaxChat == 2
\* Number of comments of the recruit.
MaxComments == 1
\* Number of join-team-chat handlers of a socket that await their lookup at
\* the same time.
MaxLookups == 2
\* Number of seats of the white room and of the staff room that the pool of
\* the model has, of the WhiteRoomSize and StaffRoomSize seats of the server.
MaxWhite == 2
MaxStaff == 1
\* Number of sweeps of the cleanup scheduler that await the store at the same
\* time.
MaxSweeps == 2

\* ------------------------------------------------------- program constants
MinHours == 1
MaxHours == 8
WhiteRoomSize == 36
StaffRoomSize == 12

\* ------------------------------------------------------------- the pool
\* `W${String(i).padStart(2, '0')}` and `S${...}` for the first values of i
WhiteNumbers == <<"W01", "W02", "W03", "W04">>
StaffNumbers == <<"S01", "S02", "S03", "S04">>

min(x, y) == IF x < y THEN x ELSE y

\* initializeSeatsIfEmpty: W01.. in room 'white', S01.. in room 'staff'.
WhiteSeats == {WhiteNumbers[k] : k \in 1..min(MaxWhite, WhiteRoomSize)}
StaffSeats == {StaffNumbers[k] : k \in 1..min(MaxStaff, StaffRoomSize)}
SeatNumbers == WhiteSeats \cup StaffSeats
room(s) == IF s \in StaffSeats THEN "staff" ELSE "white"

\* seat numbers a client can put in the URL: every seat and one that does
\* not exist
SeatInputs == SeatNumbers \cup {"Z99"}
\* values a client can send as body.hours
HoursInputs == {0, 1, 2, 9}

\* actors; the role is the role claim of the verified token (auth.ts)
Actors == {"u1", "a1", "d5"}
userRole(a) == IF a = "a1" THEN "admin" ELSE "user"
\* the account D5ngo2s_ID, logged in with its stored plaintext password
isFlagLogin(a) == a = "d5"

NoUser == "none"
NoSeat == "none"
NoDate == -1
Slots == 1..MaxReq
\* the values of the clock
Times == 0..MaxTime

VARIABLES
  seats,          \* the Seat collection: seatNumber -> document
  req,            \* slot -> operation in progress, or the response of the last one
  now,            \* wall clock, in hours
  omitUndefined,  \* does the ODM drop undefined values of $set?
  sinceSweep,     \* clock ticks since the cleanup scheduler last fired
  sweeps,         \* clock -> number of sweeps of the scheduler in flight that read it
  recruit,        \* the Recruit document G
  rreq,           \* slot -> recruit request in progress, or its response
  conns,          \* socket connections
  heard,          \* history of the join-team-chat events of each connection
  emitted,        \* the events the last step emitted through io / socket
  versionKey,     \* does the Recruit schema keep the ODM's version key?
  teamChat,       \* the field teamChat of the Recruit document G
  chat,           \* slot -> request to the team chat in progress, or its response
  made            \* the number of messages and of comments that were given an _id

\* the team chat of the recruit, the requests to it and the subdocuments made
chatVars == <<teamChat, chat, made>>

\* the state of the recruit routes and of the sockets
recruitVars == <<recruit, rreq, conns, heard, emitted, versionKey, chatVars>>

\* the state of the cleanup scheduler
schedVars == <<sinceSweep, sweeps>>

vars == <<seats, req, now, omitUndefined, schedVars, recruitVars>>

\* ------------------------------------------------------------ documents
available == [isAvailable |-> TRUE, currentUser |-> NoUser, reservedUntil |-> NoDate]

held(S, s) == ~S[s].isAvailable

holds(S, a, s) == ~S[s].isAvailable /\ S[s].currentUser = a

\* Seat.find({currentUser: a, isAvailable: false})
reservationsOf(S, a) == {s \in SeatNumbers : holds(S, a, s)}

\* body('hours').isInt({min: 1, max: 8})
validHours(h) == h >= MinHours /\ h <= MaxHours

\* A slot. In flight: pc is the await the handler is at, actor, seat, hours,
\* reservedUntil and at (the clock a sweep read: const now = new Date()) are
\* its locals; text tells that body.hours is a JSON string. Done: status,
\* outcome and the seat document of the response (seatDoc, docUser), count
\* for a sweep.
idle == [pc |-> "idle", actor |-> NoUser, seat |-> NoSeat, hours |-> 0,
         text |-> FALSE, reservedUntil |-> NoDate, at |-> NoDate,
         status |-> 0, outcome |-> "none",
         seatDoc |-> NoSeat, docUser |-> NoUser, count |-> 0]

\* res.status(code).json({error | message}); return
respond(code, what) ==
  [idle EXCEPT !.pc = "done", !.status = code, !.outcome = what]

\* res.json({message, seat})
respondSeat(what, s, u) ==
  [idle EXCEPT !.pc = "done", !.status = 200, !.outcome = what,
               !.seatDoc = s, !.docUser = u]

free(i) == req[i].pc \in {"idle", "done"}

\* an arriving operation is tracked in the lowest slot that is not in use
takes(i) == free(i) /\ \A j \in Slots : j < i => ~free(j)

\* ------------------------------------------- recruit and socket records
Conns == 1..MaxConn

\* the ids an array of ids holds: array.some(id => id.toString() === u) is
\* u \in elems(array)
elems(A) == {A[k] : k \in 1..Len(A)}

\* array.filter(id => id.toString() !== u)
without(A, u) == SelectSeq(A, LAMBDA x : x # u)

\* array.findIndex(id => id.toString() === u), for an array that holds u
indexOf(A, u) == CHOOSE k \in 1..Len(A) : A[k] = u /\ \A j \in 1..(k - 1) : A[j] # u

\* the array after array.splice(k, 1)
spliced(A, k) == SubSeq(A, 1, k - 1) \o SubSeq(A, k + 1, Len(A))

\* No Recruit document. deleted tells that the document was removed by
\* DELETE /:id: an _id is not given twice, so it is never stored again.
noRecruit == [exists |-> FALSE, deleted |-> FALSE,
              author |-> NoUser, status |-> "open",
              maxMembers |-> 0, currentMembers |-> 0,
              members |-> <<>>, pendingMembers |-> <<>>,
              tags |-> <<>>, images |-> <<>>, likes |-> <<>>, comments |-> {}]

\* What doc.save() sends for the paths the handler modified: $push for an
\* array the handler pushed to, $pull for one it pulled from, $set for an
\* array it assigned or spliced and for a scalar it changed (0 and "" stand
\* for a scalar that is not in the update).
noDelta == [pushPending |-> <<>>, pushMembers |-> <<>>,
            setPending |-> FALSE, pendingVal |-> <<>>,
            setMembers |-> FALSE, membersVal |-> <<>>,
            setCurrent |-> 0, setMax |-> 0, setStatus |-> "",
            setTags |-> FALSE, tagsVal |-> <<>>,
            setImages |-> FALSE, imagesVal |-> <<>>,
            pushLikes |-> <<>>, setLikes |-> FALSE, likesVal |-> <<>>,
            pushComments |-> {}, pullComments |-> {}]

\* A slot of the recruit routes. In flight: pc is the await the handler is
\* at; actor and target are the caller and params.userId, author is the
\* author of the document the handler read, then is the answer the handler
\* is heading for. Until its save the request keeps the update the save will
\* send (delta) and whether the version of the document has moved since the
\* read (stale).
idleR == [pc |-> "idle", actor |-> NoUser, target |-> NoUser, author |-> NoUser,
          then |-> "none", delta |-> noDelta, stale |-> FALSE,
          status |-> 0, outcome |-> "none"]

\* A socket that is not connected. lookups is the number of join-team-chat
\* handlers of the socket that await their Recruit.findById.
noSocket == [open |-> FALSE, actor |-> NoUser, rooms |-> {}, lookups |-> 0]

\* History of a connection, which no handler reads. outsiders: of the
\* join-team-chat handlers that await their lookup, the number whose event
\* came when the actor of the connection was neither the author nor a member
\* of the stored recruit; refused: the connection has been told that it is
\* not authorized to join the team chat; admitted: after that, a handler of
\* the connection whose event came when the actor was the author or a member
\* has put it in the team room.
noHistory == [outsiders |-> 0, refused |-> FALSE, admitted |-> FALSE]

\* no message
NoMsg == [id |-> "none", author |-> NoUser]

\* A slot of the team chat routes. In flight: msg is the subdocument the
\* handler pushed onto its copy of teamChat, or the one it pulled from it;
\* pc = "save" while a post awaits recruit.save(), "reread" while it awaits
\* the second findById, "pull" while a deletion awaits recruit.save(). Done:
\* status, outcome and the chatMessage of the response (reply).
idleC == [pc |-> "idle", actor |-> NoUser, msg |-> NoMsg,
          status |-> 0, outcome |-> "none", reply |-> "none"]

\* no subdocument was made yet
noneMade == [messages |-> 0, comments |-> 0]

\* no recruit, no recruit request, no connection, no chat
recruitsIdle ==
  /\ recruit = noRecruit
  /\ rreq = [i \in Slots |-> idleR]
  /\ conns = [c \in Conns |-> noSocket]
  /\ heard = [c \in Conns |-> noHistory]
  /\ emitted = {}
  /\ teamChat = <<>>
  /\ chat = [i \in Slots |-> idleC]
  /\ made = noneMade

\* no sweep of the scheduler awaits the store
noSweeps == [t \in Times |-> 0]

\* the scheduler has no sweep in flight
schedulerIdle == sinceSweep = 0 /\ sweeps = noSweeps

\* ----------------------------------------------------------------- Init
\* the store after initializeSeatsIfEmpty() on an empty collection
Init ==
  /\ seats = [s \in SeatNumbers |-> available]
  /\ req = [i \in Slots |-> idle]
  /\ now = 0
  /\ omitUndefined \in BOOLEAN
  /\ schedulerIdle
  /\ recruitsIdle /\ versionKey = TRUE

\* ------------------------------------------- POST /:seatNumber/reserve
\* the staff room rejection answered as a plain bad request
statusOf_Staff400(what) ==
  CASE what \in {"validation", "alreadyReserved", "occupied", "rolledBack", "staffOnly"} -> 400
    [] what = "notFound" -> 404
    [] what \in {"forbidden", "adminOnly"} -> 403
    [] what \in {"flagFileNotFound", "serverError"} -> 500
    [] OTHER -> 200

statusOf(what) ==
  CASE what \in {"validation", "alreadyReserved", "occupied", "rolledBack"} -> 400
    [] what = "notFound" -> 404
    [] what \in {"staffOnly", "forbidden", "adminOnly"} -> 403
    [] what \in {"flagFileNotFound", "serverError"} -> 500
    [] OTHER -> 200

\* the slot of a request that has arrived: validationResult(req) answers 400
\* for hours outside 1..8, otherwise the handler awaits Seat.findOne
arrival(a, s, h) ==
  IF ~validHours(h) THEN respond(statusOf("validation"), "validation")
  ELSE [idle EXCEPT !.pc = "seatLookup", !.actor = a, !.seat = s, !.hours = h]

\* the request arrives (lines 93-102)
Reserve(i, a, s, h) ==
  /\ takes(i)
  /\ req' = [req EXCEPT ![i] = arrival(a, s, h)]
  /\ UNCHANGED <<seats, now, omitUndefined, schedVars, recruitVars>>

\* the lookup without the staff room check
seatOutcome_NoStaffCheck(a, s) ==
  IF s \notin SeatNumbers THEN "notFound" ELSE "none"

\* what the handler answers when the seat has been looked up: 404 for a seat
\* number that is not in the pool, 403 in the staff room for anyone but an
\* admin ("none": the request goes on)
seatOutcome(a, s) ==
  IF s \notin SeatNumbers THEN "notFound"
  ELSE IF room(s) = "staff" /\ userRole(a) # "admin" THEN "staffOnly"
  ELSE "none"

\* seatInfo = await Seat.findOne({seatNumber}) and the room check
\* (lines 102-111)
SeatLookup(i) ==
  /\ req[i].pc = "seatLookup"
  /\ LET r == req[i]
         e == seatOutcome(r.actor, r.seat)
     IN req' = [req EXCEPT ![i] =
                  IF e # "none" THEN respond(statusOf(e), e)
                  ELSE [r EXCEPT !.pc = "userLookup"]]
  /\ UNCHANGED <<seats, now, omitUndefined, schedVars, recruitVars>>

\* user = await User.findById(req.userId) and the D5ngo2s_ID branch, which
\* answers the flag or, when the file cannot be read, 500 (lines 113-130)
UserLookup(i) ==
  /\ req[i].pc = "userLookup"
  /\ LET r == req[i]
     IN IF isFlagLogin(r.actor)
        THEN \E fileOk \in BOOLEAN :
               req' = [req EXCEPT ![i] =
                         IF fileOk THEN respond(statusOf("flag"), "flag")
                         ELSE respond(statusOf("flagFileNotFound"), "flagFileNotFound")]
        ELSE req' = [req EXCEPT ![i] = [r EXCEPT !.pc = "preCheck"]]
  /\ UNCHANGED <<seats, now, omitUndefined, schedVars, recruitVars>>

\* Date.prototype.getHours: the hour of the day of the clock, which counts
\* hours from a local midnight
getHours(t) == t % 24

\* getHours() + hours. body.hours is used as it was sent, isInt validates and
\* does not convert: for a JSON number + adds, for a JSON string + appends
\* the digits of hours (one digit for 1..8) to the digits of the hour
plusHours(x, h, text) == IF text THEN x * 10 + h ELSE x + h

\* reservedUntil = new Date(); reservedUntil.setHours(getHours() + hours):
\* the date of t with its hour of the day replaced, later days carried over
setHours(t, h, text) == (t - getHours(t)) + plusHours(getHours(t), h, text)

\* the handler without the check for an existing reservation
PreCheck_Skipped(i) ==
  /\ req[i].pc = "preCheck"
  /\ req' = [req EXCEPT ![i] = [req[i] EXCEPT !.pc = "update", !.hours = 0,
                                              !.text = FALSE,
                                              !.reservedUntil = setHours(now, req[i].hours, req[i].text)]]
  /\ UNCHANGED <<seats, now, omitUndefined, schedVars, recruitVars>>

\* existingReservation = await Seat.findOne({currentUser, isAvailable: false});
\* then reservedUntil = new Date() + hours (lines 132-146)
PreCheck(i) ==
  /\ req[i].pc = "preCheck"
  /\ LET r == req[i]
     IN req' = [req EXCEPT ![i] =
                  IF reservationsOf(seats, r.actor) # {}
                  THEN respond(400, "alreadyReserved")
                  ELSE [r EXCEPT !.pc = "update", !.hours = 0,
                                 !.text = FALSE,
                                 !.reservedUntil = setHours(now, r.hours, r.text)]]
  /\ UNCHANGED <<seats, now, omitUndefined, schedVars, recruitVars>>

\* the update with the filter {seatNumber} only
Update_Unconditional(i) ==
  /\ req[i].pc = "update"
  /\ seats' = [seats EXCEPT ![req[i].seat] =
                 [isAvailable |-> FALSE, currentUser |-> req[i].actor,
                  reservedUntil |-> req[i].reservedUntil]]
  /\ req' = [req EXCEPT ![i] = [req[i] EXCEPT !.pc = "count", !.reservedUntil = NoDate]]
  /\ UNCHANGED <<now, omitUndefined, schedVars, recruitVars>>

\* seat = await Seat.findOneAndUpdate({seatNumber, isAvailable: true}, {$set: ...});
\* without a match the handler awaits a second lookup of the seat
\* (lines 148-166)
Update(i) ==
  /\ req[i].pc = "update"
  /\ LET r == req[i]
     IN IF seats[r.seat].isAvailable
        THEN /\ seats' = [seats EXCEPT ![r.seat] =
                            [isAvailable |-> FALSE, currentUser |-> r.actor,
                             reservedUntil |-> r.reservedUntil]]
             /\ req' = [req EXCEPT ![i] = [r EXCEPT !.pc = "count", !.reservedUntil = NoDate]]
        ELSE /\ req' = [req EXCEPT ![i] = [r EXCEPT !.pc = "recheck", !.reservedUntil = NoDate]]
             /\ UNCHANGED seats
  /\ UNCHANGED <<now, omitUndefined, schedVars, recruitVars>>

\* seatExists = await Seat.findOne({seatNumber}): 'Seat not found' or 'Seat is
\* already occupied', whatever the seat is by now (lines 166-173)
Recheck(i) ==
  /\ req[i].pc = "recheck"
  /\ req' = [req EXCEPT ![i] =
               IF req[i].seat \notin SeatNumbers THEN respond(404, "notFound")
               ELSE respond(400, "occupied")]
  /\ UNCHANGED <<seats, now, omitUndefined, schedVars, recruitVars>>

\* the handler without the recount
Count_NoRecount(i) ==
  /\ req[i].pc = "count"
  /\ req' = [req EXCEPT ![i] = respondSeat("success", req[i].seat, req[i].actor)]
  /\ UNCHANGED <<seats, now, omitUndefined, schedVars, recruitVars>>

\* allUserReservations = await Seat.countDocuments({currentUser, isAvailable: false})
\* (lines 175-180, 197-200)
Count(i) ==
  /\ req[i].pc = "count"
  /\ LET r == req[i]
     IN req' = [req EXCEPT ![i] =
                  IF Cardinality(reservationsOf(seats, r.actor)) > 1
                  THEN [r EXCEPT !.pc = "rollback"]
                  ELSE respondSeat("success", r.seat, r.actor)]
  /\ UNCHANGED <<seats, now, omitUndefined, schedVars, recruitVars>>

\* the rollback that answers without resetting the seat
Rollback_NoReset(i) ==
  /\ req[i].pc = "rollback"
  /\ req' = [req EXCEPT ![i] = respond(400, "rolledBack")]
  /\ UNCHANGED <<seats, now, omitUndefined, schedVars, recruitVars>>

\* await Seat.findByIdAndUpdate(seat._id, {$set: {isAvailable: true}, $unset: ...})
\* (lines 181-194)
Rollback(i) ==
  /\ req[i].pc = "rollback"
  /\ seats' = [seats EXCEPT ![req[i].seat] = available]
  /\ req' = [req EXCEPT ![i] = respond(400, "rolledBack")]
  /\ UNCHANGED <<now, omitUndefined, schedVars, recruitVars>>

\* ------------------------------------------- POST /:seatNumber/release
\* the request arrives and awaits its findOneAndUpdate (lines 212-224)
Release(i, a, s) ==
  /\ takes(i)
  /\ req' = [req EXCEPT ![i] = [idle EXCEPT !.pc = "release", !.actor = a, !.seat = s]]
  /\ UNCHANGED <<seats, now, omitUndefined, schedVars, recruitVars>>

\* the filter without currentUser for any caller
releaseMatches_AnyUser(S, a, s) ==
  s \in SeatNumbers /\ ~S[s].isAvailable

\* the filter of the findOneAndUpdate
releaseMatches(S, a, s) ==
  /\ s \in SeatNumbers
  /\ ~S[s].isAvailable
  /\ (userRole(a) # "admin" => S[s].currentUser = a)

\* seat = await Seat.findOneAndUpdate(query, {$set: {isAvailable: true},
\* $unset: ...}); without a match the handler awaits a lookup of the seat
\* (lines 224-241)
ReleaseUpdate(i) ==
  /\ req[i].pc = "release"
  /\ LET r == req[i]
     IN IF releaseMatches(seats, r.actor, r.seat)
        THEN /\ seats' = [seats EXCEPT ![r.seat] = available]
             /\ req' = [req EXCEPT ![i] = respondSeat("released", r.seat, NoUser)]
        ELSE /\ UNCHANGED seats
             /\ req' = [req EXCEPT ![i] = [r EXCEPT !.pc = "releaseRecheck"]]
  /\ UNCHANGED <<now, omitUndefined, schedVars, recruitVars>>

\* seatExists = await Seat.findOne({seatNumber}): 404, or 403 whatever the
\* seat is by now (lines 241-248)
ReleaseRecheck(i) ==
  /\ req[i].pc = "releaseRecheck"
  /\ req' = [req EXCEPT ![i] =
               IF req[i].seat \notin SeatNumbers THEN respond(404, "notFound")
               ELSE respond(403, "forbidden")]
  /\ UNCHANGED <<seats, now, omitUndefined, schedVars, recruitVars>>

\* ------------------------------------------------- POST /initialize
\* the index of the Seat schema on seatNumber
seatNumberUnique == TRUE

\* the request arrives: 403 for anyone but an admin, otherwise the handler
\* awaits Seat.insertMany of the whole pool (lines 284-313)
Initialize(i, a) ==
  /\ takes(i)
  /\ req' = [req EXCEPT ![i] =
               IF userRole(a) # "admin" THEN respond(statusOf("adminOnly"), "adminOnly")
               ELSE [idle EXCEPT !.pc = "insertMany", !.actor = a]]
  /\ UNCHANGED <<seats, now, omitUndefined, schedVars, recruitVars>>

\* await Seat.insertMany([...whiteSeats, ...staffSeats]): the first document
\* has the seat number of a document of the pool, the insert throws and the
\* handler answers 500 before it touches the D5ngo2s_ID user (lines 313, 351-354)
InsertMany(i) ==
  /\ req[i].pc = "insertMany"
  /\ seatNumberUnique /\ SeatNumbers # {}
  /\ req' = [req EXCEPT ![i] = respond(statusOf("serverError"), "serverError")]
  /\ UNCHANGED <<seats, now, omitUndefined, schedVars, recruitVars>>

\* -------------------------------------------------------- expiry sweep
\* updateMany({isAvailable: false, reservedUntil: {$lt: now}},
\*            {$set: {isAvailable: true, currentUser: undefined, reservedUntil: undefined}})
\* $lte in place of $lt
expired_Inclusive(S, s, t) ==
  ~S[s].isAvailable /\ S[s].reservedUntil # NoDate /\ S[s].reservedUntil <= t

expired(S, s, t) == ~S[s].isAvailable /\ S[s].reservedUntil # NoDate /\ S[s].reservedUntil < t

\* a sweep that clears the holder and leaves the seat held
sweepDoc_KeepsHeld(d, omit) == [d EXCEPT !.currentUser = NoUser]

\* An undefined value in $set either is dropped from the update (the field
\* keeps its value) or is written as null, depending on the ODM release.
sweepDoc(d, omit) ==
  IF omit THEN [d EXCEPT !.isAvailable = TRUE] ELSE available

\* the store applies the updateMany of a sweep that read the clock at t
updateMany(S, t, omit) ==
  [s \in SeatNumbers |-> IF expired(S, s, t) THEN sweepDoc(S[s], omit) ELSE S[s]]

modifiedCount(S, t) == Cardinality({s \in SeatNumbers : expired(S, s, t)})

\* utils/seatCleanup.ts: const now = new Date(), then the function awaits
\* its updateMany
cleanupExpiredReservations(i) ==
  /\ takes(i)
  /\ req' = [req EXCEPT ![i] = [idle EXCEPT !.pc = "sweep", !.at = now]]
  /\ UNCHANGED <<seats, now, omitUndefined, schedVars, recruitVars>>

\* POST /cleanup-expired: const now = new Date(), then the handler awaits its
\* updateMany (lines 359-364)
CleanupExpired(i) ==
  /\ takes(i)
  /\ req' = [req EXCEPT ![i] = [idle EXCEPT !.pc = "cleanup", !.at = now]]
  /\ UNCHANGED <<seats, now, omitUndefined, schedVars, recruitVars>>

\* result = await Seat.updateMany(...) with the clock the sweep read; the
\* function returns modifiedCount, the route answers it
UpdateMany(i) ==
  /\ req[i].pc \in {"sweep", "cleanup"}
  /\ seats' = updateMany(seats, req[i].at, omitUndefined)
  /\ req' = [req EXCEPT ![i] =
               IF req[i].pc = "sweep"
               THEN [idle EXCEPT !.pc = "done", !.outcome = "swept",
                                 !.count = modifiedCount(seats, req[i].at)]
               ELSE [idle EXCEPT !.pc = "done", !.status = 200, !.outcome = "cleaned",
                                 !.count = modifiedCount(seats, req[i].at)]]
  /\ UNCHANGED <<now, omitUndefined, schedVars, recruitVars>>

\* ---------------------------------------------------------------- clock
Tick ==
  /\ now < MaxTime
  /\ now' = now + 1
  /\ UNCHANGED <<seats, req, omitUndefined, schedVars, recruitVars>>

\* ----------------------------------------------------------------- Next
\* every route of seats.ts that writes, and the sweep function
Next ==
  \/ \E i \in Slots, a \in Actors, s \in SeatInputs, h \in HoursInputs : Reserve(i, a, s, h)
  \/ \E i \in Slots : SeatLookup(i)
  \/ \E i \in Slots : UserLookup(i)
  \/ \E i \in Slots : PreCheck(i)
  \/ \E i \in Slots : Update(i)
  \/ \E i \in Slots : Recheck(i)
  \/ \E i \in Slots : Count(i)
  \/ \E i \in Slots : Rollback(i)
  \/ \E i \in Slots, a \in Actors, s \in SeatInputs : Release(i, a, s)
  \/ \E i \in Slots : ReleaseUpdate(i)
  \/ \E i \in Slots : ReleaseRecheck(i)
  \/ \E i \in Slots, a \in Actors : Initialize(i, a)
  \/ \E i \in Slots : InsertMany(i)
  \/ \E i \in Slots : cleanupExpiredReservations(i)
  \/ \E i \in Slots : CleanupExpired(i)
  \/ \E i \in Slots : UpdateMany(i)
  \/ Tick

Spec == Init /\ [][Next]_vars

\* ------------------------------------------------ parts of the server
\* the clients' requests while the clock stands still: every route of
\* seats.ts that writes but the sweep
NextClients ==
  \/ \E i \in Slots, a \in Actors, s \in SeatInputs, h \in HoursInputs : Reserve(i, a, s, h)
  \/ \E i \in Slots : SeatLookup(i)
  \/ \E i \in Slots : UserLookup(i)
  \/ \E i \in Slots : PreCheck(i)
  \/ \E i \in Slots : Update(i)
  \/ \E i \in Slots : Recheck(i)
  \/ \E i \in Slots : Count(i)
  \/ \E i \in Slots : Rollback(i)
  \/ \E i \in Slots, a \in Actors, s \in SeatInputs : Release(i, a, s)
  \/ \E i \in Slots : ReleaseUpdate(i)
  \/ \E i \in Slots : ReleaseRecheck(i)
  \/ \E i \in Slots, a \in Actors : Initialize(i, a)
  \/ \E i \in Slots : InsertMany(i)

SpecClients == Init /\ [][NextClients]_vars

\* the actors who can get past the D5ngo2s_ID branch
Holders == {a \in Actors : ~isFlagLogin(a)}

\* the shortest reservation, the first to expire
SweepHours == {MinHours}

\* reservations that expire and the sweeps, while the clock runs: well-formed
\* reserve requests for the white room and the shortest time, the sweep
\* function and the sweep route
NextSweeps ==
  \/ \E i \in Slots, a \in Holders, s \in WhiteSeats, h \in SweepHours : Reserve(i, a, s, h)
  \/ \E i \in Slots : SeatLookup(i)
  \/ \E i \in Slots : UserLookup(i)
  \/ \E i \in Slots : PreCheck(i)
  \/ \E i \in Slots : Update(i)
  \/ \E i \in Slots : Recheck(i)
  \/ \E i \in Slots : Count(i)
  \/ \E i \in Slots : Rollback(i)
  \/ \E i \in Slots : cleanupExpiredReservations(i)
  \/ \E i \in Slots : CleanupExpired(i)
  \/ \E i \in Slots : UpdateMany(i)
  \/ Tick

SpecSweeps == Init /\ [][NextSweeps]_vars


\* --------------------------------------------------- cleanup scheduler
\* startCleanupScheduler(intervalMinutes): the sweep runs in a setInterval
\* callback. The scheduler's interval, in clock ticks; the interval of the
\* server (5 minutes) is no longer than a tick of the clock of reservations
\* (an hour).
Interval == 1

\* a timer whose callback does not sweep
Scheduled_NoSweep ==
  /\ sinceSweep' = 0
  /\ UNCHANGED <<seats, req, now, omitUndefined, sweeps, recruitVars>>

\* the number of sweeps of the scheduler that await the store
RECURSIVE inFlightUpTo(_, _)
inFlightUpTo(W, t) == IF t < 0 THEN 0 ELSE W[t] + inFlightUpTo(W, t - 1)

sweepsInFlight == inFlightUpTo(sweeps, MaxTime)

\* the callback fires: cleanupExpiredReservations() reads the clock and
\* awaits its updateMany; the callback does not wait for it, so several
\* sweeps, also of the same hour, can await the store together
Scheduled ==
  /\ sweepsInFlight < MaxSweeps
  /\ sweeps' = [sweeps EXCEPT ![now] = @ + 1]
  /\ sinceSweep' = 0
  /\ UNCHANGED <<seats, req, now, omitUndefined, recruitVars>>

\* the store applies the updateMany of one of the sweeps of the scheduler
\* that read the clock at t; the count is only logged
ScheduledUpdateMany(t) ==
  /\ sweeps[t] > 0
  /\ seats' = updateMany(seats, t, omitUndefined)
  /\ sweeps' = [sweeps EXCEPT ![t] = @ - 1]
  /\ UNCHANGED <<req, now, omitUndefined, sinceSweep, recruitVars>>

\* the clock while the scheduler runs: no interval elapses without the callback
TickScheduled ==
  /\ now < MaxTime
  /\ sinceSweep < Interval
  /\ now' = now + 1
  /\ sinceSweep' = sinceSweep + 1
  /\ UNCHANGED <<seats, req, omitUndefined, sweeps, recruitVars>>

\* startCleanupScheduler: cleanupExpiredReservations() is called once when
\* the scheduler starts, before the first interval; that sweep read the
\* clock of the start and awaits the store
InitScheduled ==
  /\ seats = [s \in SeatNumbers |-> available]
  /\ req = [i \in Slots |-> idle]
  /\ now = 0
  /\ omitUndefined \in BOOLEAN
  /\ sinceSweep = 0
  /\ sweeps = [noSweeps EXCEPT ![0] = 1]
  /\ recruitsIdle /\ versionKey = TRUE

\* the server with the scheduler started: the clients send one request at a
\* time, reserve requests as under NextSweeps and any release; the callback
\* and the store's answer to it are the only steps that are certain to be
\* taken
NextScheduled ==
  \/ \E a \in Holders, s \in WhiteSeats, h \in SweepHours : Reserve(1, a, s, h)
  \/ SeatLookup(1)
  \/ UserLookup(1)
  \/ PreCheck(1)
  \/ Update(1)
  \/ Recheck(1)
  \/ Count(1)
  \/ \E a \in Actors, s \in SeatInputs : Release(1, a, s)
  \/ ReleaseUpdate(1)
  \/ ReleaseRecheck(1)
  \/ Scheduled
  \/ \E t \in Times : ScheduledUpdateMany(t)
  \/ TickScheduled

SpecScheduled ==
  /\ InitScheduled /\ [][NextScheduled]_vars
  /\ WF_vars(Scheduled)
  /\ \A t \in Times : WF_vars(ScheduledUpdateMany(t))

\* ------------------------------------------------- two racing requests
\* (a, s) can reach the reservation check
eligible(a, s) == seatOutcome(a, s) = "none" /\ ~isFlagLogin(a)

\* a request with valid hours that has arrived
pending(a, s, h) == arrival(a, s, h)

\* Two requests of two different actors for the same seat have arrived; every
\* seat is available and nothing else happens until both have answered.
InitRace ==
  /\ seats = [s \in SeatNumbers |-> available]
  /\ now \in 0..MaxTime
  /\ omitUndefined \in BOOLEAN
  /\ schedulerIdle
  /\ recruitsIdle /\ versionKey = TRUE
  /\ \E a, b \in Actors, s \in SeatNumbers, h, k \in HoursInputs :
       /\ a # b /\ eligible(a, s) /\ eligible(b, s)
       /\ validHours(h) /\ validHours(k)
       /\ req = [i \in Slots |-> IF i = 1 THEN pending(a, s, h)
                                 ELSE IF i = 2 THEN pending(b, s, k) ELSE idle]

NextRace ==
  \/ \E i \in Slots : SeatLookup(i)
  \/ \E i \in Slots : UserLookup(i)
  \/ \E i \in Slots : PreCheck(i)
  \/ \E i \in Slots : Update(i)
  \/ \E i \in Slots : Recheck(i)
  \/ \E i \in Slots : Count(i)

SpecRace == InitRace /\ [][NextRace]_vars

\* Two requests of the same actor for two different seats have arrived.
InitDouble ==
  /\ seats = [s \in SeatNumbers |-> available]
  /\ now \in 0..MaxTime
  /\ omitUndefined \in BOOLEAN
  /\ schedulerIdle
  /\ recruitsIdle /\ versionKey = TRUE
  /\ \E a \in Actors, s, t \in SeatNumbers, h, k \in HoursInputs :
       /\ s # t /\ eligible(a, s) /\ eligible(a, t)
       /\ validHours(h) /\ validHours(k)
       /\ req = [i \in Slots |-> IF i = 1 THEN pending(a, s, h)
                                 ELSE IF i = 2 THEN pending(a, t, k) ELSE idle]

NextDouble ==
  \/ \E i \in Slots : SeatLookup(i)
  \/ \E i \in Slots : UserLookup(i)
  \/ \E i \in Slots : PreCheck(i)
  \/ \E i \in Slots : Update(i)
  \/ \E i \in Slots : Count(i)
  \/ \E i \in Slots : Rollback(i)

SpecDouble == InitDouble /\ [][NextDouble]_vars

\* ------------------------------------------------- the reservation date
\* One request has arrived at hour T of the clock, with hours in 1..8 sent as
\* a JSON number or as a JSON string; every seat is available.
InitHours ==
  /\ seats = [s \in SeatNumbers |-> available]
  /\ now \in 0..MaxClock
  /\ omitUndefined \in BOOLEAN
  /\ schedulerIdle
  /\ recruitsIdle /\ versionKey = TRUE
  /\ \E a \in Actors, s \in SeatNumbers, h \in HoursInputs, t \in BOOLEAN :
       /\ eligible(a, s) /\ validHours(h)
       /\ req = [i \in Slots |-> IF i = 1 THEN [pending(a, s, h) EXCEPT !.text = t]
                                 ELSE idle]

NextHours ==
  \/ \E i \in Slots : SeatLookup(i)
  \/ \E i \in Slots : UserLookup(i)
  \/ \E i \in Slots : PreCheck(i)
  \/ \E i \in Slots : Update(i)
  \/ \E i \in Slots : Count(i)
  \/ \E i \in Slots, a \in Actors, s \in SeatInputs : Release(i, a, s)
  \/ \E i \in Slots : ReleaseUpdate(i)
  \/ \E i \in Slots : ReleaseRecheck(i)

SpecHours == InitHours /\ [][NextHours]_vars

\* ====================================================== recruit routes
\* routes/recruits.ts. The model follows one recruit, G. A request is tracked
\* from the step in which the store answers its first read of the recruit
\* (Recruit.findById): the handler checks and changes its own copy of the
\* document, and every later await (User.findById, recruit.save,
\* recruit.populate, Recruit.findByIdAndDelete) is a position of the request
\* that a later step resolves; other requests act between two steps. A
\* request that the validators of its route refuse is answered as it arrives.
\* The routes that only read (GET /, GET /my-chats, GET /:id/chat) and
\* GET /:id, whose save sets the scalar views, change nothing the model keeps.

\* the id of the recruit of the model
G == "G"

\* the actors who create the recruit where requests run concurrently
Authors == {"u1"}

\* the actor who applies where the applications of one actor are followed
Applicants == {"a1"}

\* a body field that was not sent
Absent == -1
\* body.maxMembers of POST / and PUT /:id (0 fails isInt({min: 1}))
MaxMembersInputs == {0, 1, 2}
\* body.currentMembers of PUT /:id (0 fails isInt({min: 1}))
CurrentMembersInputs == {0, 1, 2}
\* body.status of PUT /:id
StatusInputs == {"open", "closed"}
\* an array of the body that was not sent
NoArray == <<"undefined">>
\* body.tags and body.images of PUT /:id
TagsInputs == {<<>>, <<"x">>}
ImagesInputs == {<<>>, <<"i.png">>}
\* body.deadline: empty, not a date, a date
Deadline == "2025-02-01T00:00:00.000Z"
DeadlineInputs == {"", "soon", Deadline}

\* body('deadline').notEmpty().isISO8601()
validDeadline(d) == d = Deadline

userRoomOf(a) == <<"user", a>>
teamRoomOf(g) == <<"team", g>>

\* res.status(code).json(...)
answer(code, what) == [idleR EXCEPT !.pc = "done", !.status = code, !.outcome = what]

\* the handler has read D and awaits recruit.save()
saving(D, a, u, what, d) ==
  [idleR EXCEPT !.pc = "save", !.actor = a, !.target = u, !.author = D.author,
                !.then = what, !.delta = d]

rfree(i) == rreq[i].pc \in {"idle", "done"}

\* an arriving request is tracked in the lowest slot that is not in use
rtakes(i) == rfree(i) /\ \A j \in Slots : j < i => ~rfree(j)

\* Slot i goes on to r; of the answered requests only the last answer is
\* kept, the slot of an earlier answer is idle again.
settle(i, r) ==
  [j \in Slots |-> IF j = i THEN r
                   ELSE IF rreq[j].pc = "done" THEN idleR ELSE rreq[j]]

seatVars == <<seats, req, now, omitUndefined, schedVars>>

\* the positions at which a request holds the document it read and has not
\* saved it yet
ReadPositions == {"applicant", "save"}

\* the validators of POST / (title, content and category are well formed)
validCreate(max, deadline) == max >= 1 /\ validDeadline(deadline)

\* G was stored, or the request that stores it is in flight
created ==
  recruit.exists \/ recruit.deleted \/ \E j \in Slots : rreq[j].then = "created"

\* new Recruit({...}): the author is the first member, currentMembers is 1
newRecruit(a, max) ==
  [noRecruit EXCEPT !.exists = TRUE, !.author = a, !.maxMembers = max,
                    !.currentMembers = 1, !.members = <<a>>]

\* POST /, up to the save that inserts the recruit
CreateRecruit(i, a, max, deadline) ==
  /\ rtakes(i)
  /\ IF ~validCreate(max, deadline)
     THEN rreq' = settle(i, answer(400, "validation"))
     ELSE /\ ~created
          /\ rreq' = settle(i, saving(noRecruit, a, NoUser, "created",
                                      [noDelta EXCEPT !.setMax = max]))
  /\ emitted' = {}
  /\ UNCHANGED <<recruit, conns, heard, versionKey, seatVars, chatVars>>

\* req.body of PUT /:id
putBody(max, cur, st, tags, images, deadline) ==
  [maxMembers |-> max, currentMembers |-> cur, status |-> st,
   tags |-> tags, images |-> images, deadline |-> deadline]

\* the bodies of PUT /:id: the scalars in every combination, the arrays in
\* every combination, every deadline
PutBodies ==
  {putBody(max, cur, st, NoArray, NoArray, Deadline) :
     max \in MaxMembersInputs \cup {Absent},
     cur \in CurrentMembersInputs \cup {Absent},
     st \in StatusInputs \cup {""}}
  \cup {putBody(max, Absent, "", tags, images, Deadline) :
          max \in {Absent, 1},
          tags \in TagsInputs \cup {NoArray},
          images \in ImagesInputs \cup {NoArray}}
  \cup {putBody(1, Absent, "", NoArray, NoArray, d) : d \in DeadlineInputs}

\* the bodies of PUT /:id that send no array
ScalarBodies == {b \in PutBodies : b.tags = NoArray /\ b.images = NoArray}

\* the validators of PUT /:id
validPut(b) ==
  /\ b.maxMembers = Absent \/ b.maxMembers >= 1
  /\ b.currentMembers = Absent \/ b.currentMembers >= 1
  /\ validDeadline(b.deadline)

\* What PUT /:id answers or goes on to save, for the document D it read. An
\* array that is assigned is sent when it differs from the one that was read.
putRead(D, a, b) ==
  LET localMax == IF b.maxMembers # Absent THEN b.maxMembers ELSE D.maxMembers
  IN IF ~validPut(b) THEN answer(400, "validation")
     ELSE IF ~D.exists THEN answer(404, "notFound")
     ELSE IF D.author # a /\ userRole(a) # "admin" THEN answer(403, "forbidden")
     ELSE IF b.currentMembers # Absent /\ b.currentMembers > localMax
          THEN answer(400, "exceeds")
     ELSE saving(D, a, NoUser, "updated",
                 [noDelta EXCEPT
                    !.setMax = IF b.maxMembers # Absent /\ b.maxMembers # D.maxMembers
                               THEN b.maxMembers ELSE 0,
                    !.setCurrent = IF /\ b.currentMembers # Absent
                                      /\ b.currentMembers # D.currentMembers
                                   THEN b.currentMembers ELSE 0,
                    !.setStatus = IF b.status # "" /\ b.status # D.status
                                  THEN b.status ELSE "",
                    !.setTags = b.tags # NoArray /\ b.tags # D.tags,
                    !.tagsVal = IF b.tags # NoArray THEN b.tags ELSE <<>>,
                    !.setImages = b.images # NoArray /\ b.images # D.images,
                    !.imagesVal = IF b.images # NoArray THEN b.images ELSE <<>>])

\* PUT /:id, up to the save
UpdateRecruit(i, a, b) ==
  /\ rtakes(i)
  /\ rreq' = settle(i, putRead(recruit, a, b))
  /\ emitted' = {}
  /\ UNCHANGED <<recruit, conns, heard, versionKey, seatVars, chatVars>>

\* what DELETE /:id answers, or the request awaiting findByIdAndDelete
deleteRead(D, a) ==
  IF ~D.exists THEN answer(404, "notFound")
  ELSE IF D.author # a /\ userRole(a) # "admin" THEN answer(403, "forbidden")
  ELSE [idleR EXCEPT !.pc = "delete", !.actor = a, !.author = D.author,
                     !.then = "deleted"]

\* DELETE /:id, up to the deletion
DeleteRecruit(i, a) ==
  /\ rtakes(i)
  /\ rreq' = settle(i, deleteRead(recruit, a))
  /\ emitted' = {}
  /\ UNCHANGED <<recruit, conns, heard, versionKey, seatVars, chatVars>>

\* the recruit after its deletion
deletedRecruit == [noRecruit EXCEPT !.deleted = TRUE]

\* await Recruit.findByIdAndDelete(id): the document goes, with its team
\* chat; the answer is the same when another request has deleted it since
FindByIdAndDelete(i) ==
  /\ rreq[i].pc = "delete"
  /\ recruit' = IF recruit.exists THEN deletedRecruit ELSE recruit
  /\ teamChat' = <<>>
  /\ rreq' = settle(i, answer(200, "deleted"))
  /\ emitted' = {}
  /\ UNCHANGED <<conns, heard, versionKey, seatVars, chat, made>>

\* What POST /:id/like goes on to save: likes.splice(index, 1) sends the
\* whole array, likes.push(userId) a $push.
likeRead(D, a) ==
  IF ~D.exists THEN answer(404, "notFound")
  ELSE saving(D, a, NoUser, "liked",
              IF a \in elems(D.likes)
              THEN [noDelta EXCEPT !.setLikes = TRUE,
                                   !.likesVal = spliced(D.likes, indexOf(D.likes, a))]
              ELSE [noDelta EXCEPT !.pushLikes = <<a>>])

\* POST /:id/like, up to the save
Like(i, a) ==
  /\ rtakes(i)
  /\ rreq' = settle(i, likeRead(recruit, a))
  /\ emitted' = {}
  /\ UNCHANGED <<recruit, conns, heard, versionKey, seatVars, chatVars>>

\* body.content of POST /:id/comments: blank, a comment
CommentInputs == {"", "text"}

\* the _id of the n-th comment that was made
CommentIds == <<"c1", "c2", "c3">>

\* new ObjectId() of the pushed comment
newCommentId == CommentIds[made.comments + 1]

\* what POST /:id/comments answers or goes on to save
commentRead(D, a, content) ==
  IF content = "" THEN answer(400, "validation")
  ELSE IF ~D.exists THEN answer(404, "notFound")
  ELSE saving(D, a, NoUser, "commented",
              [noDelta EXCEPT !.pushComments = {[id |-> newCommentId, author |-> a]}])

\* POST /:id/comments, up to the save
Comment(i, a, content) ==
  /\ rtakes(i)
  /\ LET r == commentRead(recruit, a, content)
     IN /\ r.pc = "save" => made.comments < MaxComments
        /\ rreq' = settle(i, r)
        /\ made' = IF r.pc = "save" THEN [made EXCEPT !.comments = @ + 1] ELSE made
  /\ emitted' = {}
  /\ UNCHANGED <<recruit, conns, heard, versionKey, seatVars, teamChat, chat>>

\* params.commentId: the ids of the comments that can have been made
CommentIdInputs == {CommentIds[k] : k \in 1..MaxComments}

\* recruit.comments.id(commentId)
commentOf(D, cid) == CHOOSE c \in D.comments : c.id = cid

\* what DELETE /:recruitId/comments/:commentId answers or goes on to save
deleteCommentRead(D, a, cid) ==
  IF ~D.exists THEN answer(404, "notFound")
  ELSE IF \A c \in D.comments : c.id # cid THEN answer(404, "commentNotFound")
  ELSE IF commentOf(D, cid).author # a /\ userRole(a) # "admin"
       THEN answer(403, "forbidden")
  ELSE saving(D, a, NoUser, "uncommented", [noDelta EXCEPT !.pullComments = {cid}])

\* DELETE /:recruitId/comments/:commentId, up to the save
DeleteComment(i, a, cid) ==
  /\ rtakes(i)
  /\ rreq' = settle(i, deleteCommentRead(recruit, a, cid))
  /\ emitted' = {}
  /\ UNCHANGED <<recruit, conns, heard, versionKey, seatVars, chatVars>>

\* what POST /:id/join answers or goes on to save
joinRead(D, a) ==
  IF ~D.exists THEN answer(404, "notFound")
  ELSE IF D.status = "closed" THEN answer(400, "closed")
  ELSE IF a \in elems(D.members) THEN answer(400, "alreadyMember")
  ELSE IF a \in elems(D.pendingMembers) THEN answer(400, "alreadyPending")
  ELSE IF D.currentMembers >= D.maxMembers THEN answer(400, "full")
  ELSE saving(D, a, NoUser, "joined", [noDelta EXCEPT !.pushPending = <<a>>])

\* POST /:id/join, up to the save
Join(i, a) ==
  /\ rtakes(i)
  /\ rreq' = settle(i, joinRead(recruit, a))
  /\ emitted' = {}
  /\ UNCHANGED <<recruit, conns, heard, versionKey, seatVars, chatVars>>

\* DELETE /:id/join, up to the save; assigning an array equal to the one that
\* was read modifies nothing
cancelRead(D, a) ==
  IF ~D.exists THEN answer(404, "notFound")
  ELSE saving(D, a, NoUser, "cancelled",
              IF a \in elems(D.pendingMembers)
              THEN [noDelta EXCEPT !.setPending = TRUE,
                                   !.pendingVal = without(D.pendingMembers, a)]
              ELSE noDelta)

CancelJoin(i, a) ==
  /\ rtakes(i)
  /\ rreq' = settle(i, cancelRead(recruit, a))
  /\ emitted' = {}
  /\ UNCHANGED <<recruit, conns, heard, versionKey, seatVars, chatVars>>

\* the handler has read D, taken u out of its pendingMembers and awaits
\* User.findById(userId). What it does after that await (the capacity check,
\* the push, the save) depends on its copy of D alone, so the update and the
\* answer it is heading for are those of the read.
decision(D, a, u, approve) ==
  LET d == [noDelta EXCEPT !.setPending = TRUE, !.pendingVal = without(D.pendingMembers, u)]
      r == IF ~approve THEN saving(D, a, u, "rejected", d)
           ELSE IF D.currentMembers >= D.maxMembers THEN saving(D, a, u, "full", d)
           ELSE saving(D, a, u, "approved",
                       [d EXCEPT !.pushMembers = <<u>>, !.setCurrent = D.currentMembers + 1])
  IN [r EXCEPT !.pc = "applicant"]

\* the approval open to an admin as well, like PUT /:id
approveRead_AdminToo(D, a, u, approve) ==
  IF ~D.exists THEN answer(404, "notFound")
  ELSE IF D.author # a /\ userRole(a) # "admin" THEN answer(403, "notAuthor")
  ELSE IF u \notin elems(D.pendingMembers) THEN answer(400, "notPending")
  ELSE decision(D, a, u, approve)

\* what POST /:id/approve/:userId answers, or the request awaiting the
\* applicant
approveRead(D, a, u, approve) ==
  IF ~D.exists THEN answer(404, "notFound")
  ELSE IF D.author # a THEN answer(403, "notAuthor")
  ELSE IF u \notin elems(D.pendingMembers) THEN answer(400, "notPending")
  ELSE decision(D, a, u, approve)

\* POST /:id/approve/:userId, up to User.findById
Approve(i, a, u, approve) ==
  /\ rtakes(i)
  /\ rreq' = settle(i, approveRead(recruit, a, u, approve))
  /\ emitted' = {}
  /\ UNCHANGED <<recruit, conns, heard, versionKey, seatVars, chatVars>>

\* await User.findById(userId) of the approval: the handler goes on to its
\* save with the document it read before
ApproveApplicant(i) ==
  /\ rreq[i].pc = "applicant"
  /\ rreq' = settle(i, [rreq[i] EXCEPT !.pc = "save"])
  /\ emitted' = {}
  /\ UNCHANGED <<recruit, conns, heard, versionKey, seatVars, chatVars>>

\* Math.max(1, currentMembers - 1)
decremented(n) == IF n - 1 > 1 THEN n - 1 ELSE 1

\* what DELETE /:id/members/:userId answers or goes on to save
removeRead(D, a, u) ==
  IF ~D.exists THEN answer(404, "notFound")
  ELSE IF D.author # a THEN answer(403, "forbidden")
  ELSE saving(D, a, u, "removed",
              [noDelta EXCEPT
                 !.setMembers = u \in elems(D.members),
                 !.membersVal = IF u \in elems(D.members) THEN without(D.members, u) ELSE <<>>,
                 !.setCurrent = IF decremented(D.currentMembers) # D.currentMembers
                                THEN decremented(D.currentMembers) ELSE 0])

\* DELETE /:id/members/:userId, up to the save
RemoveMember(i, a, u) ==
  /\ rtakes(i)
  /\ rreq' = settle(i, removeRead(recruit, a, u))
  /\ emitted' = {}
  /\ UNCHANGED <<recruit, conns, heard, versionKey, seatVars, chatVars>>

\* the update of a save, applied to the stored document
applyDelta(D, d) ==
  [D EXCEPT
     !.pendingMembers = (IF d.setPending THEN d.pendingVal ELSE D.pendingMembers) \o d.pushPending,
     !.members = (IF d.setMembers THEN d.membersVal ELSE D.members) \o d.pushMembers,
     !.currentMembers = IF d.setCurrent # 0 THEN d.setCurrent ELSE D.currentMembers,
     !.maxMembers = IF d.setMax # 0 THEN d.setMax ELSE D.maxMembers,
     !.status = IF d.setStatus # "" THEN d.setStatus ELSE D.status,
     !.tags = IF d.setTags THEN d.tagsVal ELSE D.tags,
     !.images = IF d.setImages THEN d.imagesVal ELSE D.images,
     !.likes = (IF d.setLikes THEN d.likesVal ELSE D.likes) \o d.pushLikes,
     !.comments = {c \in D.comments : c.id \notin d.pullComments} \cup d.pushComments]

\* an array that is sent whole makes the save conditional on the version
\* that was read
versioned(d) == d.setPending \/ d.setMembers \/ d.setTags \/ d.setImages \/ d.setLikes

\* every update of an array increments the version
bumps(d) ==
  \/ versioned(d)
  \/ d.pushPending # <<>> \/ d.pushMembers # <<>> \/ d.pushLikes # <<>>
  \/ d.pushComments # {} \/ d.pullComments # {}

\* the status of the answer that ends a request
statusAfter(what) ==
  IF what = "full" THEN 400
  ELSE IF what \in {"created", "commented"} THEN 201 ELSE 200

\* the await that follows recruit.save(), "done" when the handler answers
afterSave(what) ==
  CASE what \in {"created", "updated"} -> "populateAuthor"
    [] what = "joined" -> "joinApplicant"
    [] what \in {"approved", "rejected"} -> "populateMembers"
    [] what = "commented" -> "populateComments"
    [] OTHER -> "done"

\* the await that follows recruit.populate(...) at position p
afterPopulate(what, p) ==
  CASE what = "created" /\ p = "populateAuthor" -> "populateMembers"
    [] what \in {"approved", "rejected"} /\ p = "populateMembers" -> "populatePending"
    [] OTHER -> "done"

\* request r goes on to position p, or answers
proceed(r, p) ==
  IF p = "done" THEN answer(statusAfter(r.then), r.then)
  ELSE [r EXCEPT !.pc = p, !.delta = noDelta, !.stale = FALSE]

\* io.to(`user-${...}`).emit(...) before the answer
eventsAfter(r) ==
  CASE r.then = "joined" ->
         {[to |-> userRoomOf(r.author), event |-> "recruit-application", type |-> "recruit-application"]}
    [] r.then = "approved" ->
         {[to |-> userRoomOf(r.target), event |-> "recruit-approval", type |-> "recruit-approval"]}
    [] r.then = "rejected" ->
         {[to |-> userRoomOf(r.target), event |-> "recruit-approval", type |-> "recruit-rejection"]}
    [] OTHER -> {}

\* another request's copy of the document after a save that increments the
\* version: a request that has read and not saved holds a version that moved
outdated(r) ==
  IF versionKey /\ r.pc \in ReadPositions THEN [r EXCEPT !.stale = TRUE] ELSE r

\* await recruit.save(). The save of POST / inserts the recruit. Any other
\* save updates the stored document: it fails when the document is gone, and
\* when it is conditional on a version that has moved; the handler then
\* answers 500. After the save the handler awaits again, or answers.
Save(i) ==
  /\ rreq[i].pc = "save"
  /\ LET r == rreq[i]
     IN IF r.then = "created"
        THEN /\ recruit' = newRecruit(r.actor, r.delta.setMax)
             /\ rreq' = settle(i, proceed(r, afterSave(r.then)))
        ELSE IF ~recruit.exists \/ (versionKey /\ versioned(r.delta) /\ r.stale)
        THEN /\ rreq' = settle(i, answer(500, "serverError"))
             /\ UNCHANGED recruit
        ELSE /\ recruit' = applyDelta(recruit, r.delta)
             /\ rreq' = [j \in Slots |->
                           IF j = i THEN proceed(r, afterSave(r.then))
                           ELSE IF rreq[j].pc = "done" THEN idleR
                           ELSE IF bumps(r.delta) THEN outdated(rreq[j])
                           ELSE rreq[j]]
  /\ emitted' = {}
  /\ UNCHANGED <<conns, heard, versionKey, seatVars, chatVars>>

\* await User.findById(userIdStr) of the join, after its save: the handler
\* notifies the author of the document it read and answers
JoinApplicant(i) ==
  /\ rreq[i].pc = "joinApplicant"
  /\ rreq' = settle(i, proceed(rreq[i], "done"))
  /\ emitted' = eventsAfter(rreq[i])
  /\ UNCHANGED <<recruit, conns, heard, versionKey, seatVars, chatVars>>

\* the positions at which a request awaits recruit.populate(...)
PopulatePositions ==
  {"populateAuthor", "populateMembers", "populatePending", "populateComments"}

\* await recruit.populate(...): the handler awaits its next populate, or
\* notifies (an approval or a rejection) and answers
Populate(i) ==
  /\ rreq[i].pc \in PopulatePositions
  /\ LET p == afterPopulate(rreq[i].then, rreq[i].pc)
     IN /\ rreq' = settle(i, proceed(rreq[i], p))
        /\ emitted' = IF p = "done" THEN eventsAfter(rreq[i]) ELSE {}
  /\ UNCHANGED <<recruit, conns, heard, versionKey, seatVars, chatVars>>

\* ============================================================= sockets
\* server.ts, io.on('connection'). The token was verified by io.use: the
\* actor of a connection is the userId of its token.

\* the argument of join-team-chat: the id of the recruit, or a string that is
\* not an ObjectId
RecruitIdInputs == {G, "bad"}

\* /^[a-f0-9]{24}$/i
validRecruitId(id) == id = G

\* socket.emit('error', {message})
socketError(c, what) == {[to |-> <<"socket", c>>, event |-> "error", type |-> what]}

\* A connection is accepted and joins the room of its user. A slot tracks
\* the next socket when the one before is closed and none of its handlers is
\* awaited any more.
Connect(c, a) ==
  /\ ~conns[c].open /\ conns[c].lookups = 0
  /\ conns' = [conns EXCEPT ![c] = [open |-> TRUE, actor |-> a,
                                    rooms |-> {userRoomOf(a)}, lookups |-> 0]]
  /\ heard' = [heard EXCEPT ![c] = noHistory]
  /\ emitted' = {}
  /\ UNCHANGED <<recruit, rreq, versionKey, seatVars, chatVars>>

\* actor a is neither the author nor a member of the stored recruit D
outsider(D, a) == D.exists /\ a # D.author /\ a \notin elems(D.members)

\* socket.on('join-team-chat'), up to the lookup of the recruit; the handler
\* runs for every event, whatever lookups of the socket are awaited
JoinTeamChat(c, id) ==
  /\ conns[c].open
  /\ IF validRecruitId(id)
     THEN /\ conns[c].lookups < MaxLookups
          /\ conns' = [conns EXCEPT ![c].lookups = @ + 1]
          /\ heard' = [heard EXCEPT ![c].outsiders =
                         IF outsider(recruit, conns[c].actor) THEN @ + 1 ELSE @]
          /\ emitted' = {}
     ELSE /\ emitted' = socketError(c, "Invalid recruit ID")
          /\ UNCHANGED <<conns, heard>>
  /\ UNCHANGED <<recruit, rreq, versionKey, seatVars, chatVars>>

\* the lookup that admits every connection
admits_Anyone(D, a, authorIsId) == TRUE

\* isAuthor || isMember. The author was populated: whether toString() of the
\* populated author is its id depends on the ODM (authorIsId).
admits(D, a, authorIsId) == (authorIsId /\ D.author = a) \/ a \in elems(D.members)

\* One of the lookups of the connection has read the recruit: the connection
\* joins team-<id>, or is told why not. The handler does not ask whether the
\* socket is still connected: socket.join on a closed socket registers the
\* room or does nothing, depending on the release of the socket library
\* (joinsClosed).
TeamChatLookup(c) ==
  /\ conns[c].lookups > 0
  /\ \E authorIsId \in BOOLEAN, joinsClosed \in BOOLEAN :
       IF ~recruit.exists
       THEN /\ emitted' = socketError(c, "Recruit not found")
            /\ conns' = [conns EXCEPT ![c].lookups = @ - 1]
       ELSE IF ~admits(recruit, conns[c].actor, authorIsId)
       THEN /\ emitted' = socketError(c, "Not authorized to join team chat")
            /\ conns' = [conns EXCEPT ![c].lookups = @ - 1]
       ELSE /\ emitted' = {}
            /\ conns' = [conns EXCEPT ![c].lookups = @ - 1,
                                      ![c].rooms =
                                        IF conns[c].open \/ joinsClosed
                                        THEN conns[c].rooms \cup {teamRoomOf(G)}
                                        ELSE conns[c].rooms]
  /\ \E fromOutsider \in BOOLEAN :
       /\ IF fromOutsider THEN heard[c].outsiders > 0
          ELSE conns[c].lookups > heard[c].outsiders
       /\ heard' = [heard EXCEPT
                      ![c].outsiders = IF fromOutsider THEN @ - 1 ELSE @,
                      ![c].refused =
                        @ \/ emitted' = socketError(c, "Not authorized to join team chat"),
                      ![c].admitted =
                        @ \/ (heard[c].refused /\ ~fromOutsider /\ emitted' = {}
                                /\ teamRoomOf(G) \in conns'[c].rooms)]
  /\ UNCHANGED <<recruit, rreq, versionKey, seatVars, chatVars>>

\* a string of more than 50 characters
LongId == "long"

\* the argument of leave-team-chat: the id of a recruit, another short
\* string, the id of a user, a string of more than 50 characters
LeaveInputs == RecruitIdInputs \cup Actors \cup {LongId}

\* recruitId.length > 50
tooLong(id) == id = LongId

\* a leave that takes its argument for the name of the room
LeaveTeamChat_AnyRoom(c, id) ==
  /\ conns[c].open
  /\ conns' = [conns EXCEPT ![c].rooms = conns[c].rooms \ {teamRoomOf(id), userRoomOf(id)}]
  /\ emitted' = {}
  /\ UNCHANGED <<recruit, rreq, heard, versionKey, seatVars, chatVars>>

\* socket.on('leave-team-chat')
LeaveTeamChat(c, id) ==
  /\ conns[c].open
  /\ conns' = IF tooLong(id) THEN conns
              ELSE [conns EXCEPT ![c].rooms = conns[c].rooms \ {teamRoomOf(id)}]
  /\ emitted' = {}
  /\ UNCHANGED <<recruit, rreq, heard, versionKey, seatVars, chatVars>>

\* the connection closes: it leaves every room; the lookups its handlers
\* await go on
Disconnect(c) ==
  /\ conns[c].open
  /\ conns' = [conns EXCEPT ![c].open = FALSE, ![c].rooms = {}]
  /\ emitted' = {}
  /\ UNCHANGED <<recruit, rreq, heard, versionKey, seatVars, chatVars>>

\* =========================================================== team chat
\* routes/recruits.ts, POST /:id/chat and DELETE /:recruitId/chat/:messageId

\* body.content: blank, a message, a message of more than 1000 characters
ContentInputs == {"", "text", "long"}

\* the _id of the n-th subdocument that was made: each push makes a new one
MessageIds == <<"m1", "m2", "m3", "m4", "m5">>

\* new ObjectId() of the pushed subdocument
newMessageId == MessageIds[made.messages + 1]

\* res.status(code).json(...) of the chat routes
chatAnswer(code, what, m) ==
  [idleC EXCEPT !.pc = "done", !.status = code, !.outcome = what, !.reply = m]

cfree(i) == chat[i].pc \in {"idle", "done"}

\* an arriving request is tracked in the lowest slot that is not in use
ctakes(i) == cfree(i) /\ \A j \in Slots : j < i => ~cfree(j)

\* isAuthor || isMember, on the document the request read (not populated)
mayPost(D, a) == D.author = a \/ a \in elems(D.members)

\* what POST /:id/chat answers before it saves, for the document D it read
\* ("none": it goes on to push and save)
chatRead(D, a, content) ==
  IF content = "" THEN "validation"
  ELSE IF ~D.exists THEN "notFound"
  ELSE IF ~mayPost(D, a) THEN "notMember"
  ELSE IF content = "long" THEN "tooLong"
  ELSE "none"

chatStatusOf(what) ==
  CASE what \in {"validation", "tooLong"} -> 400
    [] what \in {"notFound", "messageNotFound"} -> 404
    [] what \in {"notMember", "forbidden"} -> 403

\* the request arrives, reads the recruit and pushes its message onto its
\* copy of the document (lines 660-701)
PostChat(i, a, content) ==
  /\ ctakes(i)
  /\ LET what == chatRead(recruit, a, content)
     IN IF what # "none"
        THEN /\ chat' = [chat EXCEPT ![i] = chatAnswer(chatStatusOf(what), what, "none")]
             /\ UNCHANGED made
        ELSE /\ made.messages < MaxChat
             /\ chat' = [chat EXCEPT ![i] =
                           [idleC EXCEPT !.pc = "save", !.actor = a,
                                         !.msg = [id |-> newMessageId, author |-> a]]]
             /\ made' = [made EXCEPT !.messages = @ + 1]
  /\ emitted' = {}
  /\ UNCHANGED <<recruit, rreq, conns, heard, versionKey, teamChat, seatVars>>

\* a save that stores nothing
ChatSave_NoStore(i) ==
  /\ chat[i].pc = "save"
  /\ chat' = [chat EXCEPT ![i].pc = "reread"]
  /\ emitted' = {}
  /\ UNCHANGED <<recruit, rreq, conns, heard, versionKey, teamChat, made, seatVars>>

\* the requests of the recruit routes after a save of the chat routes, which
\* increments the version
outdatedAll == [j \in Slots |-> outdated(rreq[j])]

\* await recruit.save(): $push of the new subdocument onto teamChat. A push
\* is not conditional on the version and increments it; the save fails when
\* the document is gone.
ChatSave(i) ==
  /\ chat[i].pc = "save"
  /\ IF ~recruit.exists
     THEN /\ chat' = [chat EXCEPT ![i] = chatAnswer(500, "serverError", "none")]
          /\ UNCHANGED <<teamChat, rreq>>
     ELSE /\ teamChat' = Append(teamChat, chat[i].msg)
          /\ chat' = [chat EXCEPT ![i].pc = "reread"]
          /\ rreq' = outdatedAll
  /\ emitted' = {}
  /\ UNCHANGED <<recruit, conns, heard, versionKey, made, seatVars>>

\* updatedRecruit.teamChat[updatedRecruit.teamChat.length - 1]
lastMessage(T) == T[Len(T)]

\* io.to(`team-${id}`).emit('team-message', messageData)
teamMessage(m) == {[to |-> teamRoomOf(G), event |-> "team-message", type |-> m.id]}

\* the deliveries of the events E: an event sent to a room reaches every
\* open connection that is in the room
delivered(E, C) ==
  {<<c, e>> \in Conns \X E : C[c].open /\ e.to \in C[c].rooms}

\* The recruit has been read again (lines 705-730): the last message of
\* teamChat is broadcast to team-<id> and returned. Without a recruit the
\* handler answers 404; without a message lastMessage is undefined, reading
\* its _id throws and the handler answers 500.
ChatBroadcast(i) ==
  /\ chat[i].pc = "reread"
  /\ IF ~recruit.exists
     THEN /\ emitted' = {}
          /\ chat' = [chat EXCEPT ![i] = chatAnswer(404, "notFound", "none")]
     ELSE IF teamChat = <<>>
     THEN /\ emitted' = {}
          /\ chat' = [chat EXCEPT ![i] = chatAnswer(500, "serverError", "none")]
     ELSE LET m == lastMessage(teamChat)
          IN /\ emitted' = teamMessage(m)
             /\ chat' = [chat EXCEPT ![i] = chatAnswer(201, "sent", m.id)]
  /\ UNCHANGED <<recruit, rreq, conns, heard, versionKey, teamChat, made, seatVars>>

\* params.messageId: the ids of the messages that can have been made
MessageIdInputs == {MessageIds[k] : k \in 1..MaxChat}

\* the messages of a team chat
messagesOf(T) == {T[k] : k \in 1..Len(T)}

\* recruit.teamChat.id(messageId)
messageOf(T, mid) == CHOOSE m \in messagesOf(T) : m.id = mid

\* what DELETE /:recruitId/chat/:messageId answers before it saves, for the
\* document it read ("none": it goes on to pull and save)
deleteMessageRead(D, T, a, mid) ==
  IF ~D.exists THEN "notFound"
  ELSE IF \A m \in messagesOf(T) : m.id # mid THEN "messageNotFound"
  ELSE IF D.author # a /\ messageOf(T, mid).author # a /\ userRole(a) # "admin"
       THEN "forbidden"
  ELSE "none"

\* DELETE /:recruitId/chat/:messageId, up to the save
DeleteMessage(i, a, mid) ==
  /\ ctakes(i)
  /\ LET what == deleteMessageRead(recruit, teamChat, a, mid)
     IN chat' = [chat EXCEPT ![i] =
                   IF what # "none" THEN chatAnswer(chatStatusOf(what), what, "none")
                   ELSE [idleC EXCEPT !.pc = "pull", !.actor = a,
                                      !.msg = messageOf(teamChat, mid)]]
  /\ emitted' = {}
  /\ UNCHANGED <<recruit, rreq, conns, heard, versionKey, teamChat, made, seatVars>>

\* teamChat.pull(messageId)
pulled(T, mid) == SelectSeq(T, LAMBDA m : m.id # mid)

\* await recruit.save() of the deletion: $pull of the subdocument, which is
\* not conditional on the version and increments it
MessagePull(i) ==
  /\ chat[i].pc = "pull"
  /\ IF ~recruit.exists
     THEN /\ chat' = [chat EXCEPT ![i] = chatAnswer(500, "serverError", "none")]
          /\ UNCHANGED <<teamChat, rreq>>
     ELSE /\ teamChat' = pulled(teamChat, chat[i].msg.id)
          /\ chat' = [chat EXCEPT ![i] = chatAnswer(200, "messageDeleted", "none")]
          /\ rreq' = outdatedAll
  /\ emitted' = {}
  /\ UNCHANGED <<recruit, conns, heard, versionKey, made, seatVars>>

\* ------------------------------------------------ the recruit routes
InitRecruit ==
  /\ seats = [s \in SeatNumbers |-> available]
  /\ req = [i \in Slots |-> idle]
  /\ now = 0
  /\ omitUndefined = TRUE
  /\ schedulerIdle
  /\ recruitsIdle
  /\ versionKey \in BOOLEAN

\* Concurrent requests that change the members of the recruit. These routes
\* treat every actor alike, so one actor stands for whoever creates the
\* recruit and one for whoever applies; approvals and removals come from
\* every actor and name every actor.
NextRecruit ==
  \/ \E i \in Slots, a \in Authors, max \in MaxMembersInputs :
       CreateRecruit(i, a, max, Deadline)
  \/ \E i \in Slots, a \in Applicants : Join(i, a)
  \/ \E i \in Slots, a \in Applicants : CancelJoin(i, a)
  \/ \E i \in Slots, a, u \in Actors, approve \in BOOLEAN : Approve(i, a, u, approve)
  \/ \E i \in Slots : ApproveApplicant(i)
  \/ \E i \in Slots, a, u \in Actors : RemoveMember(i, a, u)
  \/ \E i \in Slots : Save(i)
  \/ \E i \in Slots : JoinApplicant(i)
  \/ \E i \in Slots : Populate(i)

SpecRecruit == InitRecruit /\ [][NextRecruit]_vars

\* ------------------------------------------- recruits with their sockets
\* requests to the recruit routes one at a time, and the events of the
\* sockets between their steps. One actor creates the recruit, the two others
\* apply, one of them withdraws; every actor connects, decides and removes.
NextChat ==
  \/ \E a \in Authors, max \in MaxMembersInputs : CreateRecruit(1, a, max, Deadline)
  \/ \E a \in Actors : DeleteRecruit(1, a)
  \/ FindByIdAndDelete(1)
  \/ \E a \in Actors \ Authors : Join(1, a)
  \/ \E a \in Applicants : CancelJoin(1, a)
  \/ \E a, u \in Actors, approve \in BOOLEAN : Approve(1, a, u, approve)
  \/ ApproveApplicant(1)
  \/ \E a, u \in Actors : RemoveMember(1, a, u)
  \/ Save(1)
  \/ JoinApplicant(1)
  \/ Populate(1)
  \/ \E c \in Conns, a \in Actors : Connect(c, a)
  \/ \E c \in Conns, id \in RecruitIdInputs : JoinTeamChat(c, id)
  \/ \E c \in Conns : TeamChatLookup(c)
  \/ \E c \in Conns, id \in LeaveInputs : LeaveTeamChat(c, id)
  \/ \E c \in Conns : Disconnect(c)

SpecChat == InitRecruit /\ [][NextChat]_vars

\* ------------------------------------------------- posts to the team chat
\* concurrent posts to the team chat and deletions of its messages, between
\* the steps of the requests that make the applicant a member and remove it
NextPost ==
  \/ \E a \in Authors : CreateRecruit(1, a, 2, Deadline)
  \/ \E a \in Applicants : Join(1, a)
  \/ \E a \in Authors, u \in Applicants : Approve(1, a, u, TRUE)
  \/ ApproveApplicant(1)
  \/ \E a \in Authors, u \in Applicants : RemoveMember(1, a, u)
  \/ Save(1)
  \/ JoinApplicant(1)
  \/ Populate(1)
  \/ \E i \in Slots, a \in Actors, content \in ContentInputs : PostChat(i, a, content)
  \/ \E i \in Slots : ChatSave(i)
  \/ \E i \in Slots : ChatBroadcast(i)
  \/ \E i \in Slots, a \in Actors, mid \in MessageIdInputs : DeleteMessage(i, a, mid)
  \/ \E i \in Slots : MessagePull(i)

SpecPost == InitRecruit /\ [][NextPost]_vars

\* --------------------------------------- the team chat and its sockets
\* posts one at a time, the requests that change the members one at a time,
\* and the events of the sockets
NextDeliver ==
  \/ \E a \in Authors : CreateRecruit(1, a, 2, Deadline)
  \/ \E a \in Applicants : Join(1, a)
  \/ \E a \in Authors, u \in Applicants : Approve(1, a, u, TRUE)
  \/ ApproveApplicant(1)
  \/ \E a \in Authors, u \in Applicants : RemoveMember(1, a, u)
  \/ Save(1)
  \/ JoinApplicant(1)
  \/ Populate(1)
  \/ \E a \in Authors \cup Applicants : PostChat(1, a, "text")
  \/ ChatSave(1)
  \/ ChatBroadcast(1)
  \/ \E c \in Conns, a \in Authors \cup Applicants : Connect(c, a)
  \/ \E c \in Conns : JoinTeamChat(c, G)
  \/ \E c \in Conns : TeamChatLookup(c)
  \/ \E c \in Conns : LeaveTeamChat(c, G)
  \/ \E c \in Conns : Disconnect(c)

SpecDeliver == InitRecruit /\ [][NextDeliver]_vars

\* ------------------------------------- recruit requests one at a time
\* the routes that write the members, the counters or the status of the
\* recruit, each request answered before the next one arrives
NextRequests ==
  \/ \E a \in Actors, max \in MaxMembersInputs, d \in DeadlineInputs :
       CreateRecruit(1, a, max, d)
  \/ \E a \in Actors, b \in ScalarBodies : UpdateRecruit(1, a, b)
  \/ \E a \in Actors : DeleteRecruit(1, a)
  \/ FindByIdAndDelete(1)
  \/ \E a \in Actors : Join(1, a)
  \/ \E a \in Actors : CancelJoin(1, a)
  \/ \E a, u \in Actors, approve \in BOOLEAN : Approve(1, a, u, approve)
  \/ ApproveApplicant(1)
  \/ \E a, u \in Actors : RemoveMember(1, a, u)
  \/ Save(1)
  \/ JoinApplicant(1)
  \/ Populate(1)

SpecRequests == InitRecruit /\ [][NextRequests]_vars

\* ------------------------------------------ the saves of the version key
\* Concurrent requests whose saves send an array: an application and its
\* cancellation next to a PUT with tags or images, likes, comments and their
\* deletion.
NextVersions ==
  \/ \E i \in Slots, a \in Authors : CreateRecruit(i, a, 2, Deadline)
  \/ \E i \in Slots, a \in Authors, b \in PutBodies \ ScalarBodies : UpdateRecruit(i, a, b)
  \/ \E i \in Slots, a \in Applicants : Like(i, a)
  \/ \E i \in Slots, a \in Applicants, content \in CommentInputs : Comment(i, a, content)
  \/ \E i \in Slots, a \in Actors, cid \in CommentIdInputs : DeleteComment(i, a, cid)
  \/ \E i \in Slots, a \in Applicants : Join(i, a)
  \/ \E i \in Slots, a \in Applicants : CancelJoin(i, a)
  \/ \E i \in Slots : Save(i)
  \/ \E i \in Slots : JoinApplicant(i)
  \/ \E i \in Slots : Populate(i)

SpecVersions == InitRecruit /\ [][NextVersions]_vars


\* ------------------------------------------------------------- helpers
\* slot i is a reserve request past its validation that has not answered
inFlight(i) ==
  req[i].pc \in {"seatLookup", "userLookup", "preCheck", "update", "recheck", "count", "rollback"}

\* a request of actor a has made its conditional update and has not answered
afterUpdate(a) == \E i \in Slots : req[i].pc \in {"count", "rollback"} /\ req[i].actor = a

allDone == \A i \in Slots : ~inFlight(i)

\* a step of the reserve handler in slot i
ReserveStep(i) ==
  \/ \E a \in Actors, s \in SeatInputs, h \in HoursInputs : Reserve(i, a, s, h)
  \/ SeatLookup(i)
  \/ UserLookup(i)
  \/ PreCheck(i)
  \/ Update(i)
  \/ Recheck(i)
  \/ Count(i)
  \/ Rollback(i)

\* ------------------------------------------------------- store failures
\* catch (error) { res.status(500).json({error: 'Server error'}) }: the answer
\* of the reserve handler when the store operation awaited at position p
\* throws. There is one catch around the whole handler.
failureAnswer(p) == respond(500, "serverError")

\* the positions of the reserve handler at which a store operation is awaited
StorePositions ==
  {"seatLookup", "userLookup", "preCheck", "update", "recheck", "count", "rollback"}

\* the store operation awaited by slot i throws before it writes
Fails(i) ==
  /\ req[i].pc \in StorePositions
  /\ req' = [req EXCEPT ![i] = failureAnswer(req[i].pc)]
  /\ UNCHANGED <<seats, now, omitUndefined, schedVars, recruitVars>>

\* two requests of one actor for two seats, the store failing where it may
NextFailure ==
  \/ NextDouble
  \/ \E i \in Slots : Fails(i)

SpecFailure == InitDouble /\ [][NextFailure]_vars

\* ================================================================ claims

\* C1 (as stated): in every reachable state no actor is the currentUser of
\* more than one held seat, the states between a request's conditional
\* update and its recount or rollback included.
C1_NeverTwoSeats ==
  \A a \in Actors : Cardinality(reservationsOf(seats, a)) <= 1

\* C1 (amended): an actor none of whose reserve requests is between its
\* conditional update and its answer is the currentUser of at most one held
\* seat.
C1_OneSeatOutsideClaim ==
  \A a \in Actors : ~afterUpdate(a) => Cardinality(reservationsOf(seats, a)) <= 1

\* a rollback has answered, the other request succeeded and its actor holds
\* exactly the seat of that answer
C1_Witness ==
  \E i, j \in Slots :
    /\ req[i].outcome = "rolledBack"
    /\ req[j].outcome = "success"
    /\ reservationsOf(seats, req[j].docUser) = {req[j].seatDoc}

\* C2: two requests of different actors race for one available seat: exactly
\* one answers success, the other 'already occupied', no request rolls back,
\* and the seat ends held by the actor of the successful answer.
C2_RaceOneWinner ==
  /\ \A i \in Slots : req[i].pc # "rollback"
  /\ allDone =>
       \E w, l \in Slots :
         /\ w # l
         /\ req[w].outcome = "success" /\ req[w].status = 200
         /\ req[l].outcome = "occupied" /\ req[l].status = 400
         /\ holds(seats, req[w].docUser, req[w].seatDoc)
         /\ \A s \in SeatNumbers : held(seats, s) <=> s = req[w].seatDoc

C2_Witness ==
  \E w, l \in Slots :
    /\ req[w].outcome = "success" /\ req[l].outcome = "occupied"
    /\ holds(seats, req[w].docUser, req[w].seatDoc)

\* C3: one actor, two concurrent requests for two different available seats:
\* after both have answered the actor holds exactly one of the two seats.
C3_ExactlyOneKept ==
  allDone => \E a \in Actors : Cardinality(reservationsOf(seats, a)) = 1

\* C4: for every seat, isAvailable = false if and only if both currentUser
\* and reservedUntil are set.
C4_I1 ==
  \A s \in SeatNumbers :
    (~seats[s].isAvailable) <=>
      (seats[s].currentUser # NoUser /\ seats[s].reservedUntil # NoDate)

\* C5: when a reserve request of actor X for seat S answers success, S is
\* held by X in the state of the answer and X holds no other seat.
C5_SuccessMeansHeld ==
  [][\A i \in Slots :
       (Count(i) /\ req'[i].outcome = "success") =>
         reservationsOf(seats', req[i].actor) = {req[i].seat}]_vars

\* C6: a reserve request that answers with a rejection leaves every seat it
\* did not itself claim as it was (no step that answers a rejection and
\* changes the pool changes another seat than the one it rolls back), and an
\* actor who holds a seat at the reservation check is rejected there with no
\* seat changed.
C6_RejectionFrame ==
  [][\A i \in Slots :
       /\ (req'[i].pc = "done" /\ req'[i].status # 200 /\ seats' # seats /\ ReserveStep(i)) =>
            \A s \in SeatNumbers :
              (req[i].pc = "rollback" /\ s = req[i].seat) \/ seats'[s] = seats[s]
       /\ (PreCheck(i) /\ reservationsOf(seats, req[i].actor) # {}) =>
            /\ req'[i].status = 400 /\ req'[i].outcome = "alreadyReserved"
            /\ seats' = seats]_vars

\* an actor holding one seat was rejected for the other one, which is free
C6_Witness ==
  \E i \in Slots, a \in Actors, s \in SeatNumbers :
    /\ req[i].outcome = "alreadyReserved"
    /\ reservationsOf(seats, a) = {s}
    /\ \E t \in SeatNumbers \ {s} : seats[t] = available /\ eligible(a, t)

\* C7: release. A non-admin changes a seat only if it holds it; an admin
\* frees any held seat; an existing seat that is not held, or is held by
\* someone else for a non-admin caller, answers 403 and stays as it is; a
\* seat that does not exist answers 404. The update of the handler frees
\* the seat or changes nothing, the lookup that follows a refused update
\* answers 404 or 403 and changes nothing.
C7_Release ==
  [][\A i \in Slots :
       /\ ReleaseUpdate(i) =>
            LET a == req[i].actor
                s == req[i].seat
            IN IF s \notin SeatNumbers
               THEN seats' = seats /\ req'[i].pc = "releaseRecheck"
               ELSE /\ \A t \in SeatNumbers \ {s} : seats'[t] = seats[t]
                    /\ IF held(seats, s) /\ (userRole(a) = "admin" \/ seats[s].currentUser = a)
                       THEN req'[i].status = 200 /\ seats'[s] = available
                       ELSE seats' = seats /\ req'[i].pc = "releaseRecheck"
       /\ ReleaseRecheck(i) =>
            /\ seats' = seats
            /\ req'[i].status = IF req[i].seat \in SeatNumbers THEN 403 ELSE 404]_vars

\* a release was refused while the seat of an admin stays held, and a release
\* was accepted
C7_Witness ==
  \E i, j \in Slots :
    /\ req[i].outcome = "forbidden" /\ req[i].status = 403
    /\ req[j].outcome = "released"
    /\ \E s \in SeatNumbers : holds(seats, "a1", s)

\* slot i is a reserve request that got past the room check
pastRoomCheck(i) ==
  req[i].pc \in {"userLookup", "preCheck", "update", "recheck", "count", "rollback"}

\* C8: every held seat of the staff room is held by an admin, and a request
\* of a non-admin for a staff seat never gets past the room check (so it
\* writes nothing).
C8_StaffOnlyAdmin ==
  /\ \A s \in StaffSeats : held(seats, s) => userRole(seats[s].currentUser) = "admin"
  /\ \A i \in Slots :
       (pastRoomCheck(i) /\ req[i].seat \in StaffSeats) => userRole(req[i].actor) = "admin"

C8_Witness ==
  \E s \in StaffSeats, i \in Slots :
    /\ held(seats, s) /\ req[i].outcome = "staffOnly"

\* what the handler answers at each of its steps, given the status the claim
\* expects for a non-admin on a staff seat and whether 404 is claimed for
\* every request naming a seat that does not exist. For the arrival the
\* statement is Reserve(i, a, s, h) => (the status rules); the first
\* disjuncts are evaluated before Reserve, which is the costly one.
reserveAnswers(i, staffStatus, always404) ==
  /\ (takes(i) /\ seats' = seats /\ req'[i].outcome = "validation") =>
     \A a \in Actors, s \in SeatInputs, h \in HoursInputs :
       \/ validHours(h)
       \/ /\ req'[i].status = 400
          /\ (always404 /\ s \notin SeatNumbers) => req'[i].status = 404
       \/ ~Reserve(i, a, s, h)
  /\ SeatLookup(i) =>
       /\ req'[i].status = 404 <=> req[i].seat \notin SeatNumbers
       /\ (req[i].seat \in StaffSeats /\ userRole(req[i].actor) # "admin") =>
            req'[i].status = staffStatus
  /\ (PreCheck(i) /\ reservationsOf(seats, req[i].actor) # {}) => req'[i].status = 400
  /\ (Update(i) /\ ~seats[req[i].seat].isAvailable) => req'[i].pc = "recheck"
  /\ Recheck(i) => req'[i].status = 400
  /\ Rollback(i) => req'[i].status = 400
  /\ (Count(i) /\ req'[i].pc = "done") =>
       /\ req'[i].status = 200
       /\ req'[i].seatDoc = req[i].seat /\ req'[i].docUser = req[i].actor

\* C9 (as stated): 200 with the seat on success, 404 exactly when the seat
\* does not exist, 400 for hours outside 1..8, for a seat or actor already
\* reserved, and for a non-admin on a staff seat.
C9_StatusAsStated ==
  [][\A i \in Slots : reserveAnswers(i, 400, TRUE)]_vars

\* C9 (amended): 400 for hours outside 1..8, checked before the seat is
\* looked up; with valid hours 404 exactly when the seat does not exist; 403
\* for a non-admin on a staff seat; 400 for a seat or actor already reserved;
\* 200 with the seat on success.
C9_StatusCodes ==
  [][\A i \in Slots : reserveAnswers(i, 403, FALSE)]_vars

C9_Witness ==
  \E i, j \in Slots :
    /\ req[i].outcome = "staffOnly" /\ req[i].status = 403
    /\ req[j].outcome = "success" /\ req[j].seatDoc \in SeatNumbers

\* C10: a sweep changes exactly the seats that are held with reservedUntil
\* strictly before its 'now', the clock it read when it was called, and
\* makes them available.
C10_SweepFrame ==
  [][\A i \in Slots :
       UpdateMany(i) =>
         \A s \in SeatNumbers :
           IF held(seats, s) /\ seats[s].reservedUntil < req[i].at
           THEN seats'[s] # seats[s] /\ seats'[s].isAvailable
           ELSE seats'[s] = seats[s]]_vars

\* a sweep reclaimed a seat and left a held seat that had not expired
C10_Witness ==
  \E i \in Slots, s \in SeatNumbers :
    /\ req[i].outcome \in {"swept", "cleaned"} /\ req[i].count >= 1
    /\ held(seats, s) /\ seats[s].reservedUntil >= now

\* C11: the sweep is idempotent. In the state a sweep leaves, a second sweep
\* with the same 'now' matches no seat: it would leave the store as the
\* first left it and report zero reclaimed seats.
C11_SweepIdempotent ==
  [][\A i \in Slots :
       UpdateMany(i) =>
         /\ updateMany(seats', req[i].at, omitUndefined') = seats'
         /\ modifiedCount(seats', req[i].at) = 0]_vars

\* a sweep reclaimed a seat whose expiry date stayed in the document, in the
\* past: only the availability flag keeps a second sweep from matching it
C11_Witness ==
  \E i \in Slots, s \in SeatNumbers :
    /\ req[i].outcome = "swept" /\ req[i].count >= 1
    /\ seats[s].isAvailable
    /\ seats[s].reservedUntil # NoDate /\ seats[s].reservedUntil < now

\* C12 (as stated, the bound): a seat that is held with reservedUntil in the
\* past does not stay so for longer than one interval of the scheduler: a
\* seat that was held and expired at a clock the scheduler fired at is
\* available before the clock moves on.
C12_WithinOneInterval ==
  \A s \in SeatNumbers, t \in Times :
    (sweeps[t] > 0 /\ expired(seats, s, t)) => now = t

\* C12 (amended): with the scheduler running, every seat that is held with
\* reservedUntil in the past eventually is available, whatever the clients do
\* or do not do; no interval of the scheduler elapses without a sweep being
\* sent, and a sweep of the scheduler, once the store applies it, leaves no
\* seat held with reservedUntil before the clock the sweep read.
C12_SchedulerReclaims ==
  /\ \A s \in SeatNumbers : expired(seats, s, now) ~> seats[s].isAvailable
  /\ [](sinceSweep <= Interval)
  /\ [][\A t \in Times :
          ScheduledUpdateMany(t) => \A s \in SeatNumbers : ~expired(seats', s, t)]_vars

\* a sweep of the scheduler has reclaimed a seat whose date had passed, and
\* no client released it or asked for a sweep
C12_Witness ==
  /\ sweeps = noSweeps /\ sinceSweep = 0 /\ now > 0
  /\ \A i \in Slots : req[i].outcome \notin {"released", "cleaned", "rolledBack"}
  /\ \E s \in SeatNumbers :
       /\ seats[s].isAvailable
       /\ seats[s].reservedUntil # NoDate /\ seats[s].reservedUntil < now

\* C13: a request with hours h in 1..8 that passes the reservation check at
\* time T goes on with reservedUntil = T + h, which is later than T; the
\* conditional update stores that date; and a release of the seat by its
\* holder or an admin before that date makes the seat available.
C13_ReservedUntil ==
  [][\A i \in Slots :
       /\ (PreCheck(i) /\ req'[i].pc = "update") =>
            /\ req'[i].reservedUntil = now + req[i].hours
            /\ req'[i].reservedUntil > now
       /\ (Update(i) /\ seats[req[i].seat].isAvailable) =>
            seats'[req[i].seat].reservedUntil = req[i].reservedUntil
       /\ (/\ req[i].pc = "release"
           /\ releaseMatches(seats, req[i].actor, req[i].seat)
           /\ now < seats[req[i].seat].reservedUntil
           /\ ReleaseUpdate(i)) =>
              seats'[req[i].seat] = available]_vars


\* C14 as stated: a join-team-chat event that came when the actor of the
\* connection was neither the author nor a member of the recruit is answered
\* with an error event and does not subscribe the connection.
C14_DecidedAtEvent ==
  [][\A c \in Conns :
       (TeamChatLookup(c) /\ heard'[c].outsiders < heard[c].outsiders) =>
         /\ \E e \in emitted' : e.event = "error"
         /\ conns'[c].rooms = conns[c].rooms]_vars

\* C14: a join-team-chat event is decided on the recruit as it is stored
\* when the lookup of its handler returns, not when the event came. A
\* connection whose actor is then neither the author nor one of the members
\* gets an error event and no new room; a connection whose actor is then a
\* member (for one, since the author approved its request) and that is still
\* open joins the team room with no error, whatever the recruit was when the
\* connection was made or when the event came.
C14_JoinChecksStoredRecruit ==
  [][\A c \in Conns :
       (TeamChatLookup(c) /\ recruit.exists) =>
         IF conns[c].actor \in elems(recruit.members)
         THEN /\ emitted' = {}
              /\ conns[c].open => conns'[c].rooms = conns[c].rooms \cup {teamRoomOf(G)}
         ELSE (conns[c].actor # recruit.author) =>
                /\ emitted' = socketError(c, "Not authorized to join team chat")
                /\ conns'[c].rooms = conns[c].rooms]_vars

\* a connection that was refused is still open and a later event of it has
\* put it in the team room: its actor, who is not the author, was approved
\* after the refusal and the connection sent join-team-chat again
C14_Witness ==
  \E c \in Conns :
    /\ conns[c].open /\ teamRoomOf(G) \in conns[c].rooms
    /\ heard[c].refused /\ heard[c].admitted
    /\ conns[c].actor # recruit.author
    /\ conns[c].actor \in elems(recruit.members)

\* C15: whatever the interleaving of join, cancel-join, approve/reject and
\* remove-member requests, no actor is both in members and in pendingMembers.
C15_I4 ==
  elems(recruit.members) \cap elems(recruit.pendingMembers) = {}

\* C16: after any sequence of create, update, join, approve/reject and
\* remove-member requests the number of actors in members is at most
\* maxMembers.
C16_I5 ==
  recruit.exists => Cardinality(elems(recruit.members)) <= recruit.maxMembers

\* C17: an approval (approve = true) by the author for a pending actor U,
\* read when the recruit has as many members as maxMembers, goes the way of
\* the capacity error: it answers 400 after its save, and the save leaves U
\* out of members and out of pendingMembers.
C17_ApproveAtCapacity ==
  [][\A i \in Slots :
       /\ \A a, u \in Actors :
            (/\ recruit.exists /\ a = recruit.author /\ u \in elems(recruit.pendingMembers)
             /\ Cardinality(elems(recruit.members)) = recruit.maxMembers
             /\ Approve(i, a, u, TRUE)) =>
              rreq'[i].pc = "applicant" /\ rreq'[i].then = "full"
       /\ (rreq[i].pc = "save" /\ rreq[i].then = "full" /\ Save(i) /\ rreq'[i].status # 500) =>
            /\ rreq'[i].status = 400
            /\ rreq[i].target \notin elems(recruit'.members)
            /\ rreq[i].target \notin elems(recruit'.pendingMembers)]_vars

\* what every step of Approve in slot i does, whatever its arguments
approveArrives(i) ==
  /\ rtakes(i)
  /\ recruit' = recruit
  /\ rreq'[i].then \in {"none", "approved", "rejected", "full"}
  /\ rreq'[i].outcome \in {"none", "notFound", "notAuthor", "notPending"}

\* C18: an approve/reject request for an existing recruit that comes from
\* anyone but its author (an admin included), or names an actor who is not in
\* pendingMembers, is answered at once with 403 or 400: the request saves
\* nothing, so members, pendingMembers and currentMembers stay as they are,
\* and it emits nothing.
C18_DecideRefused ==
  [][\A i \in Slots :
       (recruit.exists /\ approveArrives(i)) =>
         \A a, u \in Actors, approve \in BOOLEAN :
           (a # recruit.author \/ u \notin elems(recruit.pendingMembers)) =>
             \/ /\ rreq'[i].pc = "done"
                /\ rreq'[i].status = (IF a # recruit.author THEN 403 ELSE 400)
                /\ recruit' = recruit
                /\ emitted' = {}
             \/ ~Approve(i, a, u, approve)]_vars

\* an approval was refused to someone who is not the author while an actor
\* is pending, and the recruit has members as it had before
C18_Witness ==
  \E i \in Slots :
    /\ rreq[i].outcome = "notAuthor" /\ rreq[i].status = 403
    /\ recruit.pendingMembers # <<>>
    /\ recruit.members # <<>>

\* C19: every approve/reject request whose save has taken the target out of
\* pendingMembers (approval, rejection, approval refused for capacity) emits
\* a decision event to the room user-<target> before it answers.
C19_DecisionNotified ==
  [][\A i \in Slots :
       (/\ rreq[i].then \in {"approved", "rejected", "full"}
        /\ rreq[i].pc \in {"save", "populatePending"}
        /\ rreq'[i].pc = "done" /\ rreq'[i].status # 500) =>
         \E e \in emitted' : e.to = userRoomOf(rreq[i].target) /\ e.event = "recruit-approval"]_vars

\* what every step of Join in slot i does, whatever its actor
joinArrives(i) ==
  /\ rtakes(i)
  /\ recruit' = recruit
  /\ rreq'[i].then \in {"none", "joined"}

\* C20: a join request for an existing recruit is answered 400, with the
\* recruit as it was and nothing emitted, when the recruit is closed, the
\* actor is in members, the actor is in pendingMembers, or the recruit has as
\* many members as maxMembers; otherwise it goes on to its save, which adds
\* that actor to the pendingMembers of the recruit that is stored then and
\* changes nothing else, and after the save it emits one recruit-application
\* event to the room of the author and answers 200.
C20_Join ==
  [][\A i \in Slots :
       /\ (recruit.exists /\ joinArrives(i)) =>
            \A a \in Actors :
              \/ IF \/ recruit.status = "closed"
                    \/ a \in elems(recruit.members)
                    \/ a \in elems(recruit.pendingMembers)
                    \/ Cardinality(elems(recruit.members)) >= recruit.maxMembers
                 THEN /\ rreq'[i].pc = "done" /\ rreq'[i].status = 400
                      /\ emitted' = {}
                 ELSE rreq'[i].pc = "save" /\ rreq'[i].then = "joined" /\ emitted' = {}
              \/ ~Join(i, a)
       /\ (/\ rreq[i].pc = "save" /\ rreq[i].then = "joined"
           /\ recruit.exists /\ Save(i)) =>
            /\ recruit' = [recruit EXCEPT
                             !.pendingMembers = Append(recruit.pendingMembers, rreq[i].actor)]
            /\ rreq'[i].pc = "joinApplicant"
            /\ emitted' = {}
       /\ (rreq[i].pc = "joinApplicant" /\ JoinApplicant(i)) =>
            /\ recruit' = recruit
            /\ emitted' = {[to |-> userRoomOf(rreq[i].author),
                            event |-> "recruit-application", type |-> "recruit-application"]}
            /\ rreq'[i].status = 200]_vars

\* C25: the rollback of a reserve request of actor X makes its seat
\* available only if the seat is still held by X: a seat that is held by
\* another actor when the rollback runs stays as it is.
C25_RollbackConditional ==
  [][\A i \in Slots :
       (/\ req[i].pc = "rollback"
        /\ held(seats, req[i].seat)
        /\ seats[req[i].seat].currentUser # req[i].actor
        /\ Rollback(i)) =>
         seats'[req[i].seat] = seats[req[i].seat]]_vars

\* C27: in every state in which no reserve request is in flight no actor is
\* the currentUser of more than one held seat, whatever the interleaving of
\* reserve, release and sweep steps before.
C27_OneSeatAtRest ==
  allDone => \A a \in Actors : Cardinality(reservationsOf(seats, a)) <= 1

\* two requests of one actor have both rolled back: nothing is in flight and
\* the actor holds no seat
C27_Witness ==
  /\ allDone
  /\ \A i \in Slots : req[i].outcome = "rolledBack"
  /\ \A s \in SeatNumbers : seats[s].isAvailable

\* C29 as stated: every reserve request for a held seat whose reservedUntil
\* has passed is answered 'Seat is already occupied' (here: every request
\* that passed the validation, the staff room check and the D5ngo2s_ID
\* branch).
C29_EveryReserveOccupied ==
  [][\A i \in Slots :
       (/\ req[i].pc \in {"preCheck", "recheck"}
        /\ req[i].seat \in SeatNumbers
        /\ expired(seats, req[i].seat, now)
        /\ (PreCheck(i) \/ Recheck(i))
        /\ req'[i].pc = "done") =>
          req'[i].outcome = "occupied"]_vars

\* C29: a seat whose reservedUntil has passed and that was neither swept nor
\* released counts as held. The conditional update of a reserve request for
\* it matches nothing and leaves the store as it was, the lookup that
\* follows answers 'Seat is already occupied', and the reservation check of
\* a request of its holder answers 'You already have a seat reservation'; a
\* request stopped by the validation, the staff room check or the
\* D5ngo2s_ID branch is answered by that check.
C29_ExpiredStillHeld ==
  [][\A i \in Slots :
       /\ (/\ req[i].pc = "update"
           /\ expired(seats, req[i].seat, now)
           /\ Update(i)) =>
             (req'[i].pc = "recheck" /\ seats' = seats)
       /\ (req[i].pc = "recheck" /\ Recheck(i)) =>
             (req'[i].outcome = "occupied" /\ seats' = seats)
       /\ (/\ req[i].pc = "preCheck"
           /\ \E s \in SeatNumbers :
                holds(seats, req[i].actor, s) /\ expired(seats, s, now)
           /\ PreCheck(i)) =>
             (req'[i].outcome = "alreadyReserved" /\ seats' = seats)]_vars

\* a request was answered 'Seat is already occupied' and another 'You already
\* have a seat reservation' while the only held seat is past its reservedUntil
C29_Witness ==
  /\ req[1].outcome = "occupied"
  /\ req[2].outcome = "alreadyReserved"
  /\ \E s \in SeatNumbers :
       /\ expired(seats, s, now)
       /\ \A t \in SeatNumbers \ {s} : seats[t].isAvailable

\* C26: a store failure during the rollback of a reserve request ends the
\* request with an answer (status and error) that differs from the answer of
\* a store failure at every other step of the handler.
C26_RollbackFailureDistinct ==
  [][\A i \in Slots :
       (req[i].pc = "rollback" /\ Fails(i)) =>
         \A p \in StorePositions \ {"rollback"} :
           <<req'[i].status, req'[i].outcome>> #
             <<failureAnswer(p).status, failureAnswer(p).outcome>>]_vars

\* C28: in every state of a recruit reached by create, join, approve/reject
\* and remove-member requests handled one at a time, the stored counter
\* currentMembers is the number of actors in members.
C28_CounterIsCardinality ==
  recruit.exists => recruit.currentMembers = Cardinality(elems(recruit.members))

\* C21: while a connection is open it is subscribed to the room user-<U>
\* exactly for U its own actor, whatever join-team-chat and leave-team-chat
\* events it sent and with whatever arguments: its own room is never left
\* and no room of another user is joined.
C21_OwnUserRoomOnly ==
  \A c \in Conns :
    conns[c].open =>
      \A u \in Actors : userRoomOf(u) \in conns[c].rooms <=> u = conns[c].actor

\* an open connection that joined the team chat holds its user room and the
\* team room, and nothing else
C21_Witness ==
  \E c \in Conns :
    /\ conns[c].open
    /\ conns[c].rooms = {userRoomOf(conns[c].actor), teamRoomOf(G)}

C24_DeliveredToMembersOnly ==
  [][\A i \in Slots :
       ChatBroadcast(i) =>
         \A d \in delivered(emitted', conns) :
           LET a == conns[d[1]].actor
           IN a = recruit.author \/ a \in elems(recruit.members)]_vars

\* C30: a post that is accepted broadcasts and returns the message that this
\* same request saved, also when two posts run concurrently.
C30_BroadcastsOwnMessage ==
  [][\A i \in Slots :
       ChatBroadcast(i) =>
         /\ emitted' = teamMessage(chat[i].msg)
         /\ chat'[i].reply = chat[i].msg.id]_vars

\* C23: a team-message is broadcast to team-G only by a post that read the
\* recruit and found its poster to be the author or a member, and that has
\* saved its message into teamChat since; a post by an actor who is neither
\* the author nor a member is answered at once, saves nothing and
\* broadcasts nothing.
C23_PersistedThenBroadcast ==
  [][/\ \A i \in Slots :
          /\ (chat[i].pc \notin {"save", "reread"} /\ chat'[i].pc \in {"save", "reread"}) =>
                /\ chat'[i].pc = "save"
                /\ recruit.exists
                /\ chat'[i].actor = recruit.author \/ chat'[i].actor \in elems(recruit.members)
          /\ (chat[i].pc # "reread" /\ chat'[i].pc = "reread") =>
                /\ chat[i].pc = "save"
                /\ teamChat' = Append(teamChat, chat[i].msg)
          /\ cfree(i) =>
                \A a \in Actors, content \in ContentInputs :
                  (/\ a # recruit.author /\ a \notin elems(recruit.members)
                   /\ PostChat(i, a, content)) =>
                     /\ chat'[i].pc = "done" /\ chat'[i].status \in {400, 403, 404}
                     /\ teamChat' = teamChat
                     /\ emitted' = {}
     /\ (\E e \in emitted' : e.event = "team-message") =>
          \E i \in Slots :
            /\ chat[i].pc = "reread" /\ chat'[i].pc = "done"
            /\ \A e \in emitted' : e.to = teamRoomOf(G)]_vars

\* a post of a member was saved and broadcast, and the post of an actor who
\* is not a member was refused
C23_Witness ==
  \E i, j \in Slots :
    /\ chat[i].outcome = "sent" /\ chat[j].outcome = "notMember"
    /\ Len(teamChat) = 1
    /\ \E e \in emitted : e.event = "team-message" /\ e.type = teamChat[1].id
====
